---- MODULE Spec2Model ----
(***************************************************************************)
(* Team-legality validation rules of data/formats.js (BattleFormats).      *)
(*                                                                         *)
(* A validation request owns a team (a sequence of Sets).  The rule        *)
(* handlers validateSet / validateTeam of the rule library are applied to  *)
(* it; validateSet handlers mutate the Set they are given in place.  Every *)
(* handler call records the team it was called on (arg), the index of the  *)
(* Set it was given (idx), how it ended (outcome) and the problem list it  *)
(* returned (problems).                                                    *)
(***************************************************************************)
EXTENDS Integers, Sequences, FiniteSets, TLC

VARIABLES team, format, rule, idx, arg, outcome, problems,
          registry, target, stack, effective, status, cycle,
          cache, calls,
          sides, event,
          user, originalName, reply

\* the validation request
vvars == <<team, format, rule, idx, arg, outcome, problems>>

\* the resolution of a format's ruleset
rvars == <<registry, target, stack, effective, status, cycle>>

\* the ruleset cache and the calls that go through it
cvars == <<cache, calls>>

\* the battle the format hooks run in
bvars == <<sides, event>>

\* the user of the /away and /back commands
uvars == <<user, originalName, reply>>

vars == <<vvars, rvars, cvars, bvars, uvars>>

(***************************************************************************)
(* Bounds of the model.                                                    *)
(***************************************************************************)
MaxTeam == 3
MaxTeamMoves == 2
MaxSetMoves == 5
MaxRefs == 2
NumCallers == 2
SideSize == 2
MaxSide == 6

(***************************************************************************)
(* Sequence helpers.                                                       *)
(***************************************************************************)
RECURSIVE SumSeq(_)
SumSeq(s) == IF s = <<>> THEN 0 ELSE Head(s) + SumSeq(Tail(s))

Range(s) == {s[i] : i \in 1..Len(s)}

\* how many problems of a list are of one kind
CountKind(s, kind) == Cardinality({i \in 1..Len(s) : s[i].kind = kind})

(***************************************************************************)
(* Problems.  A problem message is kept as a record: its kind (which       *)
(* message), the name the message mentions, and the number it mentions.    *)
(***************************************************************************)
Problem(kind, who, n) == [kind |-> kind, who |-> who, n |-> n]

(***************************************************************************)
(* Entity metadata lookup (getTemplate / getMove / getItem / getAbility,   *)
(* toId).  The lookup is an external collaborator of the rule library; it  *)
(* always returns an entity record, with exists = FALSE on a miss.         *)
(***************************************************************************)
Gen == 5

\* the names the registry lists in its rulesets and banlists, and its keys
RegistryNamePairs ==
    {<<"PotD", "potd">>, <<"Random Battle", "randombattle">>,
     <<"Hail", "hail">>, <<"Snow Warning", "snowwarning">>,
     <<"Sandstorm", "sandstorm">>, <<"Rain Dance", "raindance">>,
     <<"Sunny Day", "sunnyday">>, <<"Spikes", "spikes">>,
     <<"Stealth Rocks", "stealthrocks">>, <<"Toxic Spikes", "toxicspikes">>,
     <<"Shuckle", "shuckle">>, <<"Standard Ubers", "standardubers">>,
     <<"Froslass", "froslass">>, <<"BL3", "bl3">>,
     <<"Little Cup", "littlecup">>, <<"Sonicboom", "sonicboom">>,
     <<"Dragon Rage", "dragonrage">>, <<"Berry Juice", "berryjuice">>,
     <<"Carvanha", "carvanha">>, <<"Meditite", "meditite">>,
     <<"Gligar", "gligar">>, <<"Scyther", "scyther">>,
     <<"Sneasel", "sneasel">>, <<"Tangela", "tangela">>,
     <<"Vulpix", "vulpix">>, <<"Yanma", "yanma">>, <<"Mewtwo", "mewtwo">>,
     <<"Mew", "mew">>, <<"Lugia", "lugia">>, <<"Ho-Oh", "hooh">>,
     <<"Celebi", "celebi">>, <<"Groudon", "groudon">>,
     <<"Rayquaza", "rayquaza">>, <<"Jirachi", "jirachi">>,
     <<"Deoxys", "deoxys">>, <<"Deoxys-Attack", "deoxysattack">>,
     <<"Deoxys-Speed", "deoxysspeed">>,
     <<"Deoxys-Defense", "deoxysdefense">>, <<"Dialga", "dialga">>,
     <<"Palkia", "palkia">>, <<"Phione", "phione">>,
     <<"Manaphy", "manaphy">>, <<"Darkrai", "darkrai">>,
     <<"Shaymin", "shaymin">>, <<"Shaymin-Sky", "shayminsky">>,
     <<"Arceus-Bug", "arceusbug">>, <<"Arceus-Dark", "arceusdark">>,
     <<"Arceus-Dragon", "arceusdragon">>,
     <<"Arceus-Electric", "arceuselectric">>,
     <<"Arceus-Fighting", "arceusfighting">>,
     <<"Arceus-Flying", "arceusflying">>, <<"Arceus-Ghost", "arceusghost">>,
     <<"Arceus-Grass", "arceusgrass">>, <<"Arceus-Ground", "arceusground">>,
     <<"Arceus-Ice", "arceusice">>, <<"Arceus-Poison", "arceuspoison">>,
     <<"Arceus-Psychic", "arceuspsychic">>, <<"Arceus-Rock", "arceusrock">>,
     <<"Arceus-Steel", "arceussteel">>, <<"Victini", "victini">>,
     <<"Reshiram", "reshiram">>, <<"Zekrom", "zekrom">>,
     <<"Kyurem", "kyurem">>, <<"Kyurem-Black", "kyuremblack">>,
     <<"Kyurem-White", "kyuremwhite">>, <<"Genesect", "genesect">>,
     <<"Team Preview VGC", "teampreviewvgc">>, <<"Blaziken", "blaziken">>,
     <<"Team Preview 1v1", "teampreview1v1">>,
     <<"Standard NEXT", "standardnext">>, <<"Abra", "abra">>,
     <<"Aipom", "aipom">>, <<"Archen", "archen">>, <<"Axew", "axew">>,
     <<"Bronzor", "bronzor">>, <<"Chinchou", "chinchou">>,
     <<"Clamperl", "clamperl">>, <<"Cottonee", "cottonee">>,
     <<"Cranidos", "cranidos">>, <<"Croagunk", "croagunk">>,
     <<"Diglett", "diglett">>, <<"Drifloon", "drifloon">>,
     <<"Drilbur", "drilbur">>, <<"Dwebble", "dwebble">>,
     <<"Ferroseed", "ferroseed">>, <<"Foongus", "foongus">>,
     <<"Frillish", "frillish">>, <<"Gastly", "gastly">>,
     <<"Hippopotas", "hippopotas">>, <<"Houndour", "houndour">>,
     <<"Koffing", "koffing">>, <<"Larvesta", "larvesta">>,
     <<"Lileep", "lileep">>, <<"Machop", "machop">>,
     <<"Magnemite", "magnemite">>, <<"Mienfoo", "mienfoo">>,
     <<"Misdreavus", "misdreavus">>, <<"Munchlax", "munchlax">>,
     <<"Murkrow", "murkrow">>, <<"Pawniard", "pawniard">>,
     <<"Ponyta", "ponyta">>, <<"Porygon", "porygon">>, <<"Riolu", "riolu">>,
     <<"Sandshrew", "sandshrew">>, <<"Scraggy", "scraggy">>,
     <<"Shellder", "shellder">>, <<"Shroomish", "shroomish">>,
     <<"Slowpoke", "slowpoke">>, <<"Snover", "snover">>,
     <<"Staryu", "staryu">>, <<"Tentacool", "tentacool">>,
     <<"Timburr", "timburr">>, <<"Tirtouga", "tirtouga">>,
     <<"Standard DW", "standarddw">>, <<"Memento", "memento">>,
     <<"Explosion", "explosion">>, <<"Perish Song", "perishsong">>,
     <<"Destiny Bond", "destinybond">>, <<"Healing Wish", "healingwish">>,
     <<"Selfdestruct", "selfdestruct">>, <<"Lunar Dance", "lunardance">>,
     <<"Final Gambit", "finalgambit">>, <<"Charizard", "charizard">>,
     <<"Wartortle", "wartortle">>, <<"Kadabra", "kadabra">>,
     <<"Golem", "golem">>, <<"Haunter", "haunter">>,
     <<"Exeggutor", "exeggutor">>, <<"Weezing", "weezing">>,
     <<"Kangaskhan", "kangaskhan">>, <<"Pinsir", "pinsir">>,
     <<"Lapras", "lapras">>, <<"Ampharos", "ampharos">>,
     <<"Piloswine", "piloswine">>, <<"Miltank", "miltank">>,
     <<"Ludicolo", "ludicolo">>, <<"Swellow", "swellow">>,
     <<"Gardevoir", "gardevoir">>, <<"Ninjask", "ninjask">>,
     <<"Torkoal", "torkoal">>, <<"Cacturne", "cacturne">>,
     <<"Altaria", "altaria">>, <<"Armaldo", "armaldo">>,
     <<"Gorebyss", "gorebyss">>, <<"Regirock", "regirock">>,
     <<"Regice", "regice">>, <<"Bastiodon", "bastiodon">>,
     <<"Floatzel", "floatzel">>, <<"Drifblim", "drifblim">>,
     <<"Skuntank", "skuntank">>, <<"Lickilicky", "lickilicky">>,
     <<"Probopass", "probopass">>, <<"Rotom-Fan", "rotomfan">>,
     <<"Samurott", "samurott">>, <<"Musharna", "musharna">>,
     <<"Gurdurr", "gurdurr">>, <<"Sawk", "sawk">>,
     <<"Carracosta", "carracosta">>, <<"Garbodor", "garbodor">>,
     <<"Sawsbuck", "sawsbuck">>, <<"Alomomola", "alomomola">>,
     <<"Golurk", "golurk">>, <<"Braviary", "braviary">>,
     <<"Electabuzz", "electabuzz">>, <<"Electrode", "electrode">>,
     <<"Liepard", "liepard">>, <<"Eelektross", "eelektross">>,
     <<"Ditto", "ditto">>, <<"Seismitoad", "seismitoad">>,
     <<"Zangoose", "zangoose">>, <<"Roselia", "roselia">>,
     <<"Serperior", "serperior">>, <<"Metang", "metang">>,
     <<"Tauros", "tauros">>, <<"Cradily", "cradily">>,
     <<"Primeape", "primeape">>, <<"Scolipede", "scolipede">>,
     <<"Jynx", "jynx">>, <<"Basculin", "basculin">>,
     <<"Gigalith", "gigalith">>, <<"Camerupt", "camerupt">>,
     <<"Golbat", "golbat">>,
     <<"Crobat+BraveBird+Hypnosis", "crobatbravebirdhypnosis">>,
     <<"unratedrandombattle", "unratedrandombattle">>,
     <<"ouclearskies", "ouclearskies">>,
     <<"ouclearskiesperm", "ouclearskiesperm">>,
     <<"ounohazards", "ounohazards">>, <<"pointscore", "pointscore">>,
     <<"perseverance", "perseverance">>, <<"ubers", "ubers">>,
     <<"uususpecttest", "uususpecttest">>,
     <<"rususpecttest", "rususpecttest">>, <<"cap", "cap">>,
     <<"customgame", "customgame">>,
     <<"customgamenoteampreview", "customgamenoteampreview">>,
     <<"gbusingles", "gbusingles">>, <<"globalshowdown", "globalshowdown">>,
     <<"doublesvgc2013", "doublesvgc2013">>,
     <<"smogondoubles", "smogondoubles">>,
     <<"doublesrandombattledev", "doublesrandombattledev">>,
     <<"doubleschallengecup", "doubleschallengecup">>,
     <<"doublescustomgame", "doublescustomgame">>,
     <<"stabmons", "stabmons">>,
     <<"seasonalaverageaugust", "seasonalaverageaugust">>,
     <<"challengecup", "challengecup">>,
     <<"challengecup1vs1", "challengecup1vs1">>, <<"hackmons", "hackmons">>,
     <<"balancedhackmons", "balancedhackmons">>,
     <<"gennextou", "gennextou">>, <<"oumonotype", "oumonotype">>,
     <<"rebalancedoumonotype", "rebalancedoumonotype">>,
     <<"glitchmons", "glitchmons">>, <<"lcubers", "lcubers">>,
     <<"lcuu", "lcuu">>, <<"dreamworld", "dreamworld">>,
     <<"tiershift", "tiershift">>, <<"1v1", "1v1">>, <<"pu", "pu">>,
     <<"gen4oubeta", "gen4oubeta">>, <<"gen4uubeta", "gen4uubeta">>,
     <<"gen4hackmons", "gen4hackmons">>,
     <<"gen4customgame", "gen4customgame">>,
     <<"gen3hackmons", "gen3hackmons">>,
     <<"gen3customgame", "gen3customgame">>, <<"gen2oubeta", "gen2oubeta">>,
     <<"gen2customgame", "gen2customgame">>, <<"gen1oubeta", "gen1oubeta">>,
     <<"gen1customgame", "gen1customgame">>, <<"legal", "legal">>,
     <<"freezeclause", "freezeclause">>}

\* the names the model uses, each with its id
IdPairs ==
    {<<"", "">>,
     <<"Tackle", "tackle">>, <<"tackle", "tackle">>,
     <<"Scratch", "scratch">>, <<"Surf", "surf">>, <<"Recover", "recover">>,
     <<"Toxic", "toxic">>, <<"Moonblast", "moonblast">>,
     <<"Fissure", "fissure">>, <<"Swift Swim", "swiftswim">>,
     <<"Secret Sword", "secretsword">>, <<"Shell Smash", "shellsmash">>,
     <<"Baton Pass", "batonpass">>,
     <<"Drizzle", "drizzle">>, <<"Static", "static">>,
     <<"Shadow Tag", "shadowtag">>, <<"Multitype", "multitype">>,
     <<"Levitate", "levitate">>, <<"Pressure", "pressure">>,
     <<"Fairy Aura", "fairyaura">>,
     <<"Leftovers", "leftovers">>, <<"Focus Sash", "focussash">>,
     <<"Soul Dew", "souldew">>, <<"Griseous Orb", "griseousorb">>,
     <<"Flame Plate", "flameplate">>, <<"Assault Vest", "assaultvest">>,
     <<"Pikachu", "pikachu">>, <<"Raichu", "raichu">>,
     <<"Kyogre", "kyogre">>, <<"Politoed", "politoed">>,
     <<"Kingdra", "kingdra">>, <<"Dragonite", "dragonite">>,
     <<"Giratina", "giratina">>, <<"Giratina-Origin", "giratinaorigin">>,
     <<"Arceus", "arceus">>, <<"Arceus-Fire", "arceusfire">>,
     <<"Arceus-Water", "arceuswater">>,
     <<"Syclant", "syclant">>, <<"Missingno", "missingno">>,
     <<"Castform", "castform">>, <<"Castform-Sunny", "castformsunny">>,
     <<"Cherrim", "cherrim">>, <<"Cherrim-Sunshine", "cherrimsunshine">>,
     <<"Darmanitan", "darmanitan">>, <<"Darmanitan-Zen", "darmanitanzen">>,
     <<"Keldeo", "keldeo">>, <<"Keldeo-Resolute", "keldeoresolute">>,
     <<"Keldeo-Resolution", "keldeoresolution">>, <<"Meloetta", "meloetta">>,
     <<"Meloetta-Pirouette", "meloettapirouette">>,
     <<"Uber", "uber">>, <<"OU", "ou">>, <<"BL", "bl">>, <<"UU", "uu">>,
     <<"BL2", "bl2">>, <<"RU", "ru">>, <<"NU", "nu">>, <<"NFE", "nfe">>,
     <<"LC", "lc">>, <<"CAP", "cap">>, <<"Unreleased", "unreleased">>,
     <<"Illegal", "illegal">>, <<"Moody", "moody">>,
     <<"Sand Veil", "sandveil">>, <<"Snow Cloak", "snowcloak">>,
     <<"Minimize", "minimize">>, <<"Double Team", "doubleteam">>,
     <<"Drought", "drought">>, <<"Sand Stream", "sandstream">>,
     <<"Pokemon", "pokemon">>, <<"CAP Pokemon", "cappokemon">>,
     <<"Standard", "standard">>,
     <<"Evasion Abilities Clause", "evasionabilitiesclause">>,
     <<"Evasion Moves Clause", "evasionmovesclause">>,
     <<"Team Preview", "teampreview">>, <<"Point System", "pointsystem">>,
     <<"Sleep Clause Mod", "sleepclausemod">>,
     <<"Species Clause", "speciesclause">>, <<"OHKO Clause", "ohkoclause">>,
     <<"Moody Clause", "moodyclause">>,
     <<"HP Percentage Mod", "hppercentagemod">>,
     <<"Same Type Clause", "sametypeclause">>,
     <<"Item Clause", "itemclause">>, <<"Sashclause", "sashclause">>,
     <<"leftovers", "leftovers">>, <<"focus sash", "focussash">>,
     <<"Team Preview GBU", "teampreviewgbu">>, <<"Sky Drop", "skydrop">>,
     <<"Dark Void", "darkvoid">>, <<"Chatot", "chatot">>,
     <<"Hippowdon", "hippowdon">>, <<"Prankster", "prankster">>,
     <<"Sableye", "sableye">>, <<"Hitmonlee", "hitmonlee">>,
     <<"Unburden", "unburden">>, <<"Volcarona", "volcarona">>,
     <<"Sheer Cold", "sheercold">>, <<"Shadow Strike", "shadowstrike">>,
     <<"Mountaineer", "mountaineer">>, <<"Crucibellite", "crucibellite">>,
     <<"Froakie", "froakie">>, <<"Mystery Box", "mysterybox">>,
     <<"Splash Plate", "splashplate">>,
     <<"Wonder Guard", "wonderguard">>, <<"Pure Power", "purepower">>,
     <<"Huge Power", "hugepower">>, <<"Arena Trap", "arenatrap">>,
     <<"Balanced Hackmons", "balancedhackmons">>,
     <<"A", "a">>, <<"B", "b">>, <<"C", "c">>,
     <<"Shell Smash + Baton Pass", "shellsmashbatonpass">>}
        \cup RegistryNamePairs

\* an id is its own id
IdTable ==
    [n \in {p[1] : p \in IdPairs} \cup {p[2] : p \in IdPairs} |->
        IF n \in {p[1] : p \in IdPairs}
        THEN (CHOOSE p \in IdPairs : p[1] = n)[2]
        ELSE n]

\* toId: lower case, everything but letters and digits stripped.
toId(name) == IdTable[name]

Template(num, name, tier, gen, nonstd, hasTypes, types) ==
    [num |-> num, name |-> name, tier |-> tier, gen |-> gen,
     isNonstandard |-> nonstd, hasTypes |-> hasTypes, types |-> types,
     exists |-> TRUE]

Pokedex ==
    [id \in {"pikachu", "raichu", "kyogre", "politoed", "kingdra",
             "dragonite", "giratina", "giratinaorigin", "arceus", "arceusfire",
             "syclant", "castform", "castformsunny", "cherrim",
             "cherrimsunshine", "darmanitan", "darmanitanzen", "keldeo",
             "keldeoresolute", "meloetta", "meloettapirouette", "froakie",
             "arceuswater"} |->
        CASE id = "arceuswater" -> Template(493, "Arceus-Water", "Uber", 4, FALSE, TRUE, <<"Water">>)
          [] id = "froakie" -> Template(656, "Froakie", "LC", 6, FALSE, TRUE, <<"Water">>)
          [] id = "pikachu" -> Template(25, "Pikachu", "NFE", 1, FALSE, TRUE, <<"Electric">>)
          [] id = "raichu" -> Template(26, "Raichu", "NU", 1, FALSE, TRUE, <<"Electric">>)
          [] id = "kyogre" -> Template(382, "Kyogre", "Uber", 3, FALSE, TRUE, <<"Water">>)
          [] id = "politoed" -> Template(186, "Politoed", "OU", 2, FALSE, TRUE, <<"Water">>)
          [] id = "kingdra" -> Template(230, "Kingdra", "UU", 2, FALSE, TRUE, <<"Water", "Dragon">>)
          [] id = "dragonite" -> Template(149, "Dragonite", "OU", 1, FALSE, TRUE, <<"Dragon", "Flying">>)
          [] id = "giratina" -> Template(487, "Giratina", "Uber", 4, FALSE, TRUE, <<"Ghost", "Dragon">>)
          [] id = "giratinaorigin" -> Template(487, "Giratina-Origin", "Uber", 4, FALSE, TRUE, <<"Ghost", "Dragon">>)
          [] id = "arceus" -> Template(493, "Arceus", "Uber", 4, FALSE, TRUE, <<"Normal">>)
          [] id = "arceusfire" -> Template(493, "Arceus-Fire", "Uber", 4, FALSE, TRUE, <<"Fire">>)
          [] id = "syclant" -> Template(0 - 1, "Syclant", "CAP", 4, TRUE, TRUE, <<"Ice", "Bug">>)
          [] id = "castform" -> Template(351, "Castform", "NU", 3, FALSE, TRUE, <<"Normal">>)
          [] id = "castformsunny" -> Template(351, "Castform-Sunny", "NU", 3, FALSE, TRUE, <<"Fire">>)
          [] id = "cherrim" -> Template(421, "Cherrim", "NU", 4, FALSE, TRUE, <<"Grass">>)
          [] id = "cherrimsunshine" -> Template(421, "Cherrim-Sunshine", "NU", 4, FALSE, TRUE, <<"Grass">>)
          [] id = "darmanitan" -> Template(555, "Darmanitan", "UU", 5, FALSE, TRUE, <<"Fire">>)
          [] id = "darmanitanzen" -> Template(555, "Darmanitan-Zen", "UU", 5, FALSE, TRUE, <<"Fire", "Psychic">>)
          [] id = "keldeo" -> Template(647, "Keldeo", "OU", 5, FALSE, TRUE, <<"Water", "Fighting">>)
          [] id = "keldeoresolute" -> Template(647, "Keldeo-Resolute", "OU", 5, FALSE, TRUE, <<"Water", "Fighting">>)
          [] id = "meloetta" -> Template(648, "Meloetta", "UU", 5, FALSE, TRUE, <<"Normal", "Psychic">>)
          [] id = "meloettapirouette" -> Template(648, "Meloetta-Pirouette", "UU", 5, FALSE, TRUE, <<"Normal", "Fighting">>)]

getTemplate(species) ==
    IF toId(species) \in DOMAIN Pokedex THEN Pokedex[toId(species)]
    ELSE [num |-> 0, name |-> species, tier |-> "", gen |-> 0,
          isNonstandard |-> FALSE, hasTypes |-> FALSE, types |-> <<>>,
          exists |-> FALSE]

Move(id, name, gen, nonstd, basePower, ohko) ==
    [id |-> id, name |-> name, gen |-> gen, isNonstandard |-> nonstd,
     basePower |-> basePower, ohko |-> ohko, exists |-> TRUE]

Movedex ==
    [id \in {"tackle", "scratch", "surf", "recover", "toxic", "moonblast",
             "fissure", "secretsword", "shellsmash", "batonpass",
             "sheercold", "shadowstrike", "minimize"} |->
        CASE id = "minimize" -> Move(id, "Minimize", 1, FALSE, 0, FALSE)
          [] id = "sheercold" -> Move(id, "Sheer Cold", 3, FALSE, 0, TRUE)
          [] id = "shadowstrike" -> Move(id, "Shadow Strike", 4, TRUE, 80, FALSE)
          [] id = "tackle" -> Move(id, "Tackle", 1, FALSE, 50, FALSE)
          [] id = "scratch" -> Move(id, "Scratch", 1, FALSE, 40, FALSE)
          [] id = "surf" -> Move(id, "Surf", 1, FALSE, 95, FALSE)
          [] id = "recover" -> Move(id, "Recover", 1, FALSE, 0, FALSE)
          [] id = "toxic" -> Move(id, "Toxic", 1, FALSE, 0, FALSE)
          [] id = "moonblast" -> Move(id, "Moonblast", 6, FALSE, 95, FALSE)
          [] id = "fissure" -> Move(id, "Fissure", 1, FALSE, 0, TRUE)
          [] id = "secretsword" -> Move(id, "Secret Sword", 5, FALSE, 85, FALSE)
          [] id = "shellsmash" -> Move(id, "Shell Smash", 5, FALSE, 0, FALSE)
          [] id = "batonpass" -> Move(id, "Baton Pass", 2, FALSE, 0, FALSE)]

\* basePower of a move that is not in the dex is undefined: -1 stands for it.
getMove(name) ==
    IF toId(name) \in DOMAIN Movedex THEN Movedex[toId(name)]
    ELSE [id |-> toId(name), name |-> name, gen |-> 0, isNonstandard |-> FALSE,
          basePower |-> 0 - 1, ohko |-> FALSE, exists |-> FALSE]

Ability(id, name, gen, nonstd) ==
    [id |-> id, name |-> name, gen |-> gen, isNonstandard |-> nonstd,
     exists |-> TRUE]

Abilitydex ==
    [id \in {"drizzle", "static", "shadowtag", "swiftswim", "multitype",
             "levitate", "pressure", "fairyaura", "mountaineer"} |->
        CASE id = "mountaineer" -> Ability(id, "Mountaineer", 4, TRUE)
          [] id = "drizzle" -> Ability(id, "Drizzle", 3, FALSE)
          [] id = "static" -> Ability(id, "Static", 3, FALSE)
          [] id = "shadowtag" -> Ability(id, "Shadow Tag", 3, FALSE)
          [] id = "swiftswim" -> Ability(id, "Swift Swim", 3, FALSE)
          [] id = "multitype" -> Ability(id, "Multitype", 4, FALSE)
          [] id = "levitate" -> Ability(id, "Levitate", 3, FALSE)
          [] id = "pressure" -> Ability(id, "Pressure", 3, FALSE)
          [] id = "fairyaura" -> Ability(id, "Fairy Aura", 6, FALSE)]

getAbility(name) ==
    IF toId(name) \in DOMAIN Abilitydex THEN Abilitydex[toId(name)]
    ELSE [id |-> toId(name), name |-> name, gen |-> 0, isNonstandard |-> FALSE,
          exists |-> FALSE]

Item(id, name, gen, nonstd, onPlate) ==
    [id |-> id, name |-> name, gen |-> gen, isNonstandard |-> nonstd,
     onPlate |-> onPlate, exists |-> TRUE]

Itemdex ==
    [id \in {"leftovers", "focussash", "souldew", "griseousorb", "flameplate",
             "assaultvest", "crucibellite", "splashplate"} |->
        CASE id = "splashplate" -> Item(id, "Splash Plate", 4, FALSE, "Water")
          [] id = "crucibellite" -> Item(id, "Crucibellite", 6, TRUE, "")
          [] id = "leftovers" -> Item(id, "Leftovers", 2, FALSE, "")
          [] id = "focussash" -> Item(id, "Focus Sash", 4, FALSE, "")
          [] id = "souldew" -> Item(id, "Soul Dew", 3, FALSE, "")
          [] id = "griseousorb" -> Item(id, "Griseous Orb", 4, FALSE, "")
          [] id = "flameplate" -> Item(id, "Flame Plate", 4, FALSE, "Fire")
          [] id = "assaultvest" -> Item(id, "Assault Vest", 6, FALSE, "")]

getItem(name) ==
    IF toId(name) \in DOMAIN Itemdex THEN Itemdex[toId(name)]
    ELSE [id |-> toId(name), name |-> name, gen |-> 0, isNonstandard |-> FALSE,
          onPlate |-> "", exists |-> FALSE]

(***************************************************************************)
(* Sets.  An absent ability, item or name is "", an absent level is 0 (all *)
(* falsy in the source); an absent moves list is hasMoves = FALSE.         *)
(***************************************************************************)
MkSet(species, name, ability, item, level) ==
    [species |-> species, name |-> name, hasMoves |-> FALSE, moves |-> <<>>,
     ability |-> ability, item |-> item, level |-> level]

WithMoves(set) == [set EXCEPT !.hasMoves = TRUE]

(***************************************************************************)
(* Point System (pointsystem.validateTeam).                                *)
(***************************************************************************)
\* Every entry of movePoints is 0.
movePoints ==
    [id \in {"tackle", "scratch", "surf", "recover", "toxic", "fissure",
             "secretsword", "shellsmash", "batonpass", "sheercold"} |-> 0]

itemPoints ==
    [id \in {"leftovers", "focussash", "souldew", "griseousorb", "flameplate"} |->
        CASE id = "leftovers" -> 100
          [] id = "focussash" -> 50
          [] id = "souldew" -> 0
          [] id = "griseousorb" -> 0
          [] id = "flameplate" -> 50]

abilityPoints ==
    [id \in {"drizzle", "static", "shadowtag", "swiftswim", "multitype",
             "levitate", "pressure", "mountaineer"} |->
        IF id = "drizzle" THEN 200 ELSE 0]

formatPoints ==
    [tier \in {"Uber", "OU", "BL", "UU", "BL2", "RU", "NU", "NFE", "LC"} |->
        CASE tier = "Uber" -> 800 [] tier = "OU" -> 400 [] tier = "BL" -> 350
          [] tier = "UU" -> 300   [] tier = "BL2" -> 250 [] tier = "RU" -> 200
          [] tier = "NU" -> 150   [] tier = "NFE" -> 150 [] tier = "LC" -> 150]

maxPoints == 2000

\* table[key], counted only when it is listed and not 0 (if (table[key]) ...)
PointsOf(table, key) == IF key \in DOMAIN table THEN table[key] ELSE 0

\* first loop: the points one Set adds
SetPoints(set) ==
    PointsOf(formatPoints, getTemplate(set.species).tier)
    + (IF set.ability # "" THEN PointsOf(abilityPoints, getAbility(set.ability).id) ELSE 0)
    + (IF set.hasMoves
       THEN SumSeq([x \in 1..Len(set.moves) |-> PointsOf(movePoints, getMove(set.moves[x]).id)])
       ELSE 0)
    + PointsOf(itemPoints, getItem(set.item).id)

TeamPoints(t) == SumSeq([i \in 1..Len(t) |-> SetPoints(t[i])])

\* second loop, inner loop over the moves of one Uber Set from position b on:
\* the running nonDam count and whether the problem was pushed (break)
RECURSIVE NonDamMoves(_, _, _)
NonDamMoves(moves, b, nonDam) ==
    IF b > Len(moves) THEN [nonDam |-> nonDam, hit |-> FALSE]
    ELSE IF getMove(moves[b]).basePower = 0
         THEN IF nonDam > 1 THEN [nonDam |-> nonDam, hit |-> TRUE]
              ELSE NonDamMoves(moves, b + 1, nonDam + 1)
         ELSE NonDamMoves(moves, b + 1, nonDam)

\* second loop over the Sets from position i on; set.moves.length of an Uber
\* Set without a moves list is a TypeError
RECURSIVE NonDamTeam(_, _, _, _)
NonDamTeam(t, i, nonDam, probs) ==
    IF i > Len(t) THEN [outcome |-> "returned", problems |-> probs]
    ELSE IF getTemplate(t[i].species).tier = "Uber"
         THEN IF ~t[i].hasMoves THEN [outcome |-> "threw", problems |-> <<>>]
              ELSE LET r == NonDamMoves(t[i].moves, 1, nonDam)
                   IN  NonDamTeam(t, i + 1, r.nonDam,
                                  IF r.hit THEN Append(probs, Problem("nondamaging", "", 0))
                                  ELSE probs)
         ELSE NonDamTeam(t, i + 1, nonDam, probs)

pointsystem_validateTeam(t) ==
    LET points == TeamPoints(t)
        scan == NonDamTeam(t, 1, 0, <<>>)
    IN  IF scan.outcome = "threw" THEN scan
        ELSE [outcome |-> "returned",
              problems |-> IF points > maxPoints
                           THEN Append(scan.problems, Problem("points", "", points))
                           ELSE scan.problems]

(***************************************************************************)
(* The format registry (BattleFormats): the ruleset and banlist of the     *)
(* entries the model uses.  A banlist entry is kept as its tokens, the     *)
(* separator between two tokens being a token of its own:                  *)
(* 'Drizzle ++ Swift Swim' is <<"Drizzle", "++", "Swift Swim">>.           *)
(***************************************************************************)
Entry(ruleset, banlist) == [ruleset |-> ruleset, banlist |-> banlist]

ou_noComplexBan ==
    Entry(<<"Pokemon", "Standard", "Evasion Abilities Clause", "Team Preview">>,
          <<<<"Uber">>, <<"Soul Dew">>>>)

ou ==
    Entry(<<"Pokemon", "Standard", "Evasion Abilities Clause", "Team Preview">>,
          <<<<"Uber">>, <<"Drizzle", "++", "Swift Swim">>, <<"Soul Dew">>>>)

cap ==
    Entry(<<"CAP Pokemon", "Standard", "Evasion Abilities Clause", "Team Preview">>,
          <<<<"Uber">>, <<"Drizzle", "++", "Swift Swim">>, <<"Soul Dew">>>>)

\* what pointscore lists under the key 'banlists'
pointscore_banlists ==
    <<<<"Drizzle", "++", "Swift Swim">>, <<"Soul Dew">>, <<"Arceus">>,
      <<"Shadow Tag">>>>

\* pointscore lists its bans under the key 'banlists': it has no banlist
pointscore ==
    Entry(<<"Pokemon", "Standard", "Evasion Abilities Clause", "Team Preview",
            "Point System">>,
          <<>>)

oumonotype ==
    Entry(<<"Pokemon", "Standard", "Same Type Clause", "Evasion Abilities Clause",
            "Team Preview">>,
          <<<<"Uber">>, <<"Drizzle", "++", "Swift Swim">>, <<"Soul Dew">>>>)

uu ==
    Entry(<<"OU">>, <<<<"OU">>, <<"BL">>, <<"Drought">>, <<"Sand Stream">>>>)

\* the last entry is one string with a single '+'
ru ==
    Entry(<<"UU">>, <<<<"UU">>, <<"BL2">>, <<"Shell Smash + Baton Pass">>>>)

rususpecttest ==
    Entry(<<"UU">>, <<<<"UU">>, <<"BL2">>, <<"Shell Smash + Baton Pass">>>>)

hackmons == Entry(<<"Pokemon">>, <<>>)

balancedhackmons ==
    Entry(<<"Pokemon", "OHKO Clause">>,
          <<<<"Wonder Guard">>, <<"Pure Power">>, <<"Huge Power">>,
            <<"Shadow Tag">>, <<"Arena Trap">>>>)

standard ==
    Entry(<<"Sleep Clause Mod", "Species Clause", "OHKO Clause", "Moody Clause",
            "Evasion Moves Clause", "HP Percentage Mod">>,
          <<<<"Unreleased">>, <<"Illegal">>>>)

evasionabilitiesclause == Entry(<<>>, <<<<"Sand Veil">>, <<"Snow Cloak">>>>)

evasionmovesclause == Entry(<<>>, <<<<"Minimize">>, <<"Double Team">>>>)

moodyclause == Entry(<<>>, <<<<"Moody">>>>)

globalshowdown ==
    Entry(<<"Pokemon", "Species Clause", "Item Clause", "Team Preview GBU">>,
          <<<<"Unreleased">>, <<"Illegal">>, <<"Sky Drop">>, <<"Dark Void">>,
            <<"Soul Dew">>, <<"Chatot">>>>)

rebalancedoumonotype ==
    Entry(<<"Pokemon", "Standard", "Same Type Clause", "Evasion Abilities Clause",
            "Team Preview", "Sashclause">>,
          <<<<"Uber">>, <<"Drizzle">>, <<"Soul Dew">>, <<"Drought">>,
            <<"Hippowdon", "++", "Sand Stream">>, <<"Prankster", "++", "Sableye">>,
            <<"Hitmonlee", "++", "Unburden">>, <<"Volcarona", "++", "Focus Sash">>,
            <<"Shell Smash", "++", "Focus Sash">>>>)

gbusingles ==
    Entry(<<"Pokemon", "Species Clause", "Item Clause", "Team Preview GBU">>,
          <<<<"Unreleased">>, <<"Illegal">>, <<"Sky Drop">>, <<"Dark Void">>,
            <<"Soul Dew">>, <<"Mewtwo">>, <<"Mew">>, <<"Lugia">>,
            <<"Ho-Oh">>, <<"Celebi">>, <<"Kyogre">>, <<"Groudon">>,
            <<"Rayquaza">>, <<"Jirachi">>, <<"Deoxys">>, <<"Deoxys-Attack">>,
            <<"Deoxys-Speed">>, <<"Deoxys-Defense">>, <<"Chatot">>,
            <<"Dialga">>, <<"Palkia">>, <<"Giratina">>,
            <<"Giratina-Origin">>, <<"Phione">>, <<"Manaphy">>,
            <<"Darkrai">>, <<"Shaymin">>, <<"Shaymin-Sky">>, <<"Arceus">>,
            <<"Arceus-Bug">>, <<"Arceus-Dark">>, <<"Arceus-Dragon">>,
            <<"Arceus-Electric">>, <<"Arceus-Fighting">>, <<"Arceus-Fire">>,
            <<"Arceus-Flying">>, <<"Arceus-Ghost">>, <<"Arceus-Grass">>,
            <<"Arceus-Ground">>, <<"Arceus-Ice">>, <<"Arceus-Poison">>,
            <<"Arceus-Psychic">>, <<"Arceus-Rock">>, <<"Arceus-Steel">>,
            <<"Arceus-Water">>, <<"Victini">>, <<"Reshiram">>, <<"Zekrom">>,
            <<"Kyurem">>, <<"Kyurem-Black">>, <<"Kyurem-White">>,
            <<"Keldeo">>, <<"Keldeo-Resolute">>, <<"Meloetta">>,
            <<"Genesect">>>>)

doublesvgc2013 ==
    Entry(<<"Pokemon", "Team Preview VGC", "Species Clause", "Item Clause">>,
          <<<<"Unreleased">>, <<"Illegal">>, <<"Sky Drop">>, <<"Dark Void">>,
            <<"Soul Dew">>, <<"Mewtwo">>, <<"Mew">>, <<"Lugia">>,
            <<"Ho-Oh">>, <<"Celebi">>, <<"Kyogre">>, <<"Groudon">>,
            <<"Rayquaza">>, <<"Jirachi">>, <<"Deoxys">>, <<"Deoxys-Attack">>,
            <<"Deoxys-Speed">>, <<"Deoxys-Defense">>, <<"Chatot">>,
            <<"Dialga">>, <<"Palkia">>, <<"Giratina">>,
            <<"Giratina-Origin">>, <<"Phione">>, <<"Manaphy">>,
            <<"Darkrai">>, <<"Shaymin">>, <<"Shaymin-Sky">>, <<"Arceus">>,
            <<"Arceus-Bug">>, <<"Arceus-Dark">>, <<"Arceus-Dragon">>,
            <<"Arceus-Electric">>, <<"Arceus-Fighting">>, <<"Arceus-Fire">>,
            <<"Arceus-Flying">>, <<"Arceus-Ghost">>, <<"Arceus-Grass">>,
            <<"Arceus-Ground">>, <<"Arceus-Ice">>, <<"Arceus">>,
            <<"Arceus-Poison">>, <<"Arceus-Psychic">>, <<"Arceus-Rock">>,
            <<"Arceus-Steel">>, <<"Arceus-Water">>, <<"Victini">>,
            <<"Reshiram">>, <<"Zekrom">>, <<"Kyurem">>, <<"Kyurem-Black">>,
            <<"Kyurem-White">>, <<"Keldeo">>, <<"Keldeo-Resolute">>,
            <<"Meloetta">>, <<"Genesect">>>>)

challengecup1vs1 ==
    Entry(<<"Pokemon", "Team Preview 1v1", "HP Percentage Mod">>, <<>>)

onevone ==
    Entry(<<"Pokemon", "Standard">>,
          <<<<"Unreleased">>, <<"Illegal">>, <<"Soul Dew">>, <<"Arceus">>,
            <<"Arceus-Bug">>, <<"Arceus-Dark">>, <<"Arceus-Dragon">>,
            <<"Arceus-Electric">>, <<"Arceus-Fighting">>, <<"Arceus-Fire">>,
            <<"Arceus-Flying">>, <<"Arceus-Ghost">>, <<"Arceus-Grass">>,
            <<"Arceus-Ground">>, <<"Arceus-Ice">>, <<"Arceus">>,
            <<"Arceus-Poison">>, <<"Arceus-Psychic">>, <<"Arceus-Rock">>,
            <<"Arceus-Steel">>, <<"Arceus-Water">>, <<"Blaziken">>,
            <<"Darkrai">>, <<"Deoxys">>, <<"Deoxys-Attack">>, <<"Dialga">>,
            <<"Giratina">>, <<"Giratina-Origin">>, <<"Groudon">>,
            <<"Ho-Oh">>, <<"Kyogre">>, <<"Kyurem-White">>, <<"Lugia">>,
            <<"Mewtwo">>, <<"Palkia">>, <<"Rayquaza">>, <<"Reshiram">>,
            <<"Shaymin-Sky">>, <<"Zekrom">>, <<"Memento">>, <<"Explosion">>,
            <<"Perish Song">>, <<"Destiny Bond">>, <<"Healing Wish">>,
            <<"Selfdestruct">>, <<"Lunar Dance">>, <<"Final Gambit">>,
            <<"Focus Sash">>>>)

\* the formats with an onBegin hook that cuts the teams
CuttingFormats ==
    [id \in {"gbusingles", "globalshowdown", "doublesvgc2013",
             "challengecup1vs1", "1v1"} |->
        CASE id = "gbusingles" -> gbusingles
          [] id = "globalshowdown" -> globalshowdown
          [] id = "doublesvgc2013" -> doublesvgc2013
          [] id = "challengecup1vs1" -> challengecup1vs1
          [] id = "1v1" -> onevone]

\* the rules without ruleset and banlist
RuleIds ==
    {"pokemon", "cappokemon", "speciesclause", "ohkoclause", "hppercentagemod",
     "sleepclausemod", "sametypeclause", "pointsystem", "teampreview",
     "itemclause", "sashclause", "teampreviewgbu"}

BattleFormats ==
    [id \in {"ou", "cap", "pointscore", "oumonotype", "hackmons",
             "balancedhackmons", "uu", "ru", "rususpecttest",
             "globalshowdown", "rebalancedoumonotype",
             "standard", "evasionabilitiesclause", "evasionmovesclause",
             "moodyclause"} \cup RuleIds |->
        CASE id = "ou" -> ou
          [] id = "globalshowdown" -> globalshowdown
          [] id = "rebalancedoumonotype" -> rebalancedoumonotype
          [] id = "cap" -> cap
          [] id = "pointscore" -> pointscore
          [] id = "oumonotype" -> oumonotype
          [] id = "hackmons" -> hackmons
          [] id = "uu" -> uu
          [] id = "ru" -> ru
          [] id = "rususpecttest" -> rususpecttest
          [] id = "balancedhackmons" -> balancedhackmons
          [] id = "standard" -> standard
          [] id = "evasionabilitiesclause" -> evasionabilitiesclause
          [] id = "evasionmovesclause" -> evasionmovesclause
          [] id = "moodyclause" -> moodyclause
          [] OTHER -> Entry(<<>>, <<>>)]

\* the other entries of the registry
OtherFormats ==
    [id \in {"randombattle", "unratedrandombattle", "ouclearskies",
             "ouclearskiesperm", "ounohazards", "perseverance", "ubers",
             "uususpecttest", "nu", "lc", "customgame",
             "customgamenoteampreview", "smogondoubles",
             "doublesrandombattledev", "doubleschallengecup",
             "doublescustomgame", "stabmons", "seasonalaverageaugust",
             "challengecup", "gennextou", "glitchmons", "lcubers", "lcuu",
             "dreamworld", "tiershift", "pu", "gen4oubeta", "gen4uubeta",
             "gen4hackmons", "gen4customgame", "gen3hackmons",
             "gen3customgame", "gen2oubeta", "gen2customgame",
             "gen1oubeta", "gen1customgame", "standardnext",
             "standardubers", "standarddw", "legal", "potd",
             "teampreviewvgc", "teampreview1v1", "littlecup",
             "freezeclause"} |->
        CASE id = "randombattle" ->
            Entry(<<"PotD", "Pokemon", "Sleep Clause Mod",
                    "HP Percentage Mod">>,
                  <<>>)
          [] id = "unratedrandombattle" ->
            Entry(<<"Random Battle">>,
                  <<>>)
          [] id = "ouclearskies" ->
            Entry(<<"Pokemon", "Standard", "Evasion Abilities Clause",
                    "Team Preview">>,
                  <<<<"Uber">>, <<"Drizzle", "++", "Swift Swim">>,
                    <<"Soul Dew">>, <<"Hail">>, <<"Snow Warning">>,
                    <<"Sand Stream">>, <<"Sandstorm">>, <<"Rain Dance">>,
                    <<"Drizzle">>, <<"Drought">>, <<"Sunny Day">>>>)
          [] id = "ouclearskiesperm" ->
            Entry(<<"Pokemon", "Standard", "Evasion Abilities Clause",
                    "Team Preview">>,
                  <<<<"Uber">>, <<"Drizzle", "++", "Swift Swim">>,
                    <<"Soul Dew">>, <<"Hail">>, <<"Sandstorm">>,
                    <<"Rain Dance">>, <<"Sunny Day">>>>)
          [] id = "ounohazards" ->
            Entry(<<"Pokemon", "Standard", "Evasion Abilities Clause",
                    "Team Preview">>,
                  <<<<"Uber">>, <<"Drizzle", "++", "Swift Swim">>,
                    <<"Soul Dew">>, <<"Spikes">>, <<"Stealth Rocks">>,
                    <<"Toxic Spikes">>>>)
          [] id = "perseverance" ->
            Entry(<<"Pokemon", "Standard", "Evasion Abilities Clause",
                    "Team Preview">>,
                  <<<<"Uber">>, <<"Drizzle", "++", "Swift Swim">>,
                    <<"Soul Dew">>, <<"Shuckle">>, <<"Sableye">>>>)
          [] id = "ubers" ->
            Entry(<<"Pokemon", "Team Preview", "Standard Ubers">>,
                  <<>>)
          [] id = "uususpecttest" ->
            Entry(<<"OU">>,
                  <<<<"OU">>, <<"BL">>, <<"Drought">>, <<"Sand Stream">>,
                    <<"Froslass">>>>)
          [] id = "nu" ->
            Entry(<<"RU">>,
                  <<<<"RU">>, <<"BL3">>>>)
          [] id = "lc" ->
            Entry(<<"Pokemon", "Standard", "Team Preview", "Little Cup">>,
                  <<<<"Sonicboom">>, <<"Dragon Rage">>, <<"Berry Juice">>,
                    <<"Carvanha">>, <<"Meditite">>, <<"Gligar">>,
                    <<"Scyther">>, <<"Sneasel">>, <<"Tangela">>,
                    <<"Vulpix">>, <<"Yanma">>, <<"Soul Dew">>>>)
          [] id = "customgame" ->
            Entry(<<"Team Preview">>,
                  <<>>)
          [] id = "customgamenoteampreview" ->
            Entry(<<>>,
                  <<>>)
          [] id = "smogondoubles" ->
            Entry(<<"Pokemon", "Team Preview", "Sleep Clause Mod",
                    "Species Clause", "OHKO Clause", "Moody Clause",
                    "Evasion Moves Clause", "Evasion Abilities Clause",
                    "HP Percentage Mod">>,
                  <<<<"Unreleased">>, <<"Illegal">>, <<"Dark Void">>,
                    <<"Soul Dew">>, <<"Sky Drop">>, <<"Mewtwo">>,
                    <<"Lugia">>, <<"Ho-Oh">>, <<"Kyogre">>, <<"Groudon">>,
                    <<"Rayquaza">>, <<"Dialga">>, <<"Palkia">>,
                    <<"Giratina">>, <<"Giratina-Origin">>, <<"Arceus">>,
                    <<"Arceus-Bug">>, <<"Arceus-Dark">>, <<"Arceus-Dragon">>,
                    <<"Arceus-Electric">>, <<"Arceus-Fighting">>,
                    <<"Arceus-Fire">>, <<"Arceus-Flying">>,
                    <<"Arceus-Ghost">>, <<"Arceus-Grass">>,
                    <<"Arceus-Ground">>, <<"Arceus-Ice">>, <<"Arceus">>,
                    <<"Arceus-Poison">>, <<"Arceus-Psychic">>,
                    <<"Arceus-Rock">>, <<"Arceus-Steel">>,
                    <<"Arceus-Water">>, <<"Reshiram">>, <<"Zekrom">>,
                    <<"Kyurem-White">>>>)
          [] id = "doublesrandombattledev" ->
            Entry(<<"PotD", "Pokemon", "HP Percentage Mod">>,
                  <<>>)
          [] id = "doubleschallengecup" ->
            Entry(<<"Pokemon", "HP Percentage Mod">>,
                  <<>>)
          [] id = "doublescustomgame" ->
            Entry(<<"Team Preview">>,
                  <<>>)
          [] id = "stabmons" ->
            Entry(<<"Pokemon", "Standard", "Evasion Abilities Clause",
                    "Team Preview">>,
                  <<<<"Drizzle", "++", "Swift Swim">>, <<"Soul Dew">>,
                    <<"Soul Dew">>, <<"Mewtwo">>, <<"Lugia">>, <<"Ho-Oh">>,
                    <<"Blaziken">>, <<"Kyogre">>, <<"Groudon">>,
                    <<"Rayquaza">>, <<"Deoxys">>, <<"Deoxys-Attack">>,
                    <<"Dialga">>, <<"Palkia">>, <<"Giratina">>,
                    <<"Giratina-Origin">>, <<"Manaphy">>, <<"Shaymin-Sky">>,
                    <<"Arceus">>, <<"Arceus-Bug">>, <<"Arceus-Dark">>,
                    <<"Arceus-Dragon">>, <<"Arceus-Electric">>,
                    <<"Arceus-Fighting">>, <<"Arceus-Fire">>,
                    <<"Arceus-Flying">>, <<"Arceus-Ghost">>,
                    <<"Arceus-Grass">>, <<"Arceus-Ground">>,
                    <<"Arceus-Ice">>, <<"Arceus-Poison">>,
                    <<"Arceus-Psychic">>, <<"Arceus-Rock">>,
                    <<"Arceus-Steel">>, <<"Arceus-Water">>, <<"Reshiram">>,
                    <<"Zekrom">>, <<"Kyurem-White">>, <<"Genesect">>>>)
          [] id = "seasonalaverageaugust" ->
            Entry(<<"HP Percentage Mod", "Sleep Clause Mod">>,
                  <<>>)
          [] id = "challengecup" ->
            Entry(<<"Pokemon", "HP Percentage Mod">>,
                  <<>>)
          [] id = "gennextou" ->
            Entry(<<"Pokemon", "Standard NEXT", "Team Preview">>,
                  <<<<"Uber">>>>)
          [] id = "glitchmons" ->
            Entry(<<"Pokemon", "Team Preview", "HP Percentage Mod">>,
                  <<<<"Illegal">>, <<"Unreleased">>>>)
          [] id = "lcubers" ->
            Entry(<<"Pokemon", "Standard", "Team Preview", "Little Cup">>,
                  <<<<"Sonicboom">>, <<"Dragon Rage">>, <<"Berry Juice">>,
                    <<"Soul Dew">>>>)
          [] id = "lcuu" ->
            Entry(<<"LC">>,
                  <<<<"Abra">>, <<"Aipom">>, <<"Archen">>, <<"Axew">>,
                    <<"Bronzor">>, <<"Chinchou">>, <<"Clamperl">>,
                    <<"Cottonee">>, <<"Cranidos">>, <<"Croagunk">>,
                    <<"Diglett">>, <<"Drifloon">>, <<"Drilbur">>,
                    <<"Dwebble">>, <<"Ferroseed">>, <<"Foongus">>,
                    <<"Frillish">>, <<"Gastly">>, <<"Hippopotas">>,
                    <<"Houndour">>, <<"Koffing">>, <<"Larvesta">>,
                    <<"Lileep">>, <<"Machop">>, <<"Magnemite">>,
                    <<"Mienfoo">>, <<"Misdreavus">>, <<"Munchlax">>,
                    <<"Murkrow">>, <<"Pawniard">>, <<"Ponyta">>,
                    <<"Porygon">>, <<"Riolu">>, <<"Sandshrew">>,
                    <<"Scraggy">>, <<"Shellder">>, <<"Shroomish">>,
                    <<"Slowpoke">>, <<"Snover">>, <<"Staryu">>,
                    <<"Tentacool">>, <<"Timburr">>, <<"Tirtouga">>>>)
          [] id = "dreamworld" ->
            Entry(<<"Pokemon", "Standard DW", "Team Preview">>,
                  <<>>)
          [] id = "tiershift" ->
            Entry(<<"Pokemon", "Standard", "Evasion Abilities Clause",
                    "Team Preview">>,
                  <<<<"Uber">>, <<"Drizzle", "++", "Swift Swim">>,
                    <<"Soul Dew">>>>)
          [] id = "pu" ->
            Entry(<<"NU">>,
                  <<<<"Charizard">>, <<"Wartortle">>, <<"Kadabra">>,
                    <<"Golem">>, <<"Haunter">>, <<"Exeggutor">>,
                    <<"Weezing">>, <<"Kangaskhan">>, <<"Pinsir">>,
                    <<"Lapras">>, <<"Ampharos">>, <<"Misdreavus">>,
                    <<"Piloswine">>, <<"Miltank">>, <<"Ludicolo">>,
                    <<"Swellow">>, <<"Gardevoir">>, <<"Ninjask">>,
                    <<"Torkoal">>, <<"Cacturne">>, <<"Altaria">>,
                    <<"Armaldo">>, <<"Gorebyss">>, <<"Regirock">>,
                    <<"Regice">>, <<"Bastiodon">>, <<"Floatzel">>,
                    <<"Drifblim">>, <<"Skuntank">>, <<"Lickilicky">>,
                    <<"Probopass">>, <<"Rotom-Fan">>, <<"Samurott">>,
                    <<"Musharna">>, <<"Gurdurr">>, <<"Sawk">>,
                    <<"Carracosta">>, <<"Garbodor">>, <<"Sawsbuck">>,
                    <<"Alomomola">>, <<"Golurk">>, <<"Braviary">>,
                    <<"Electabuzz">>, <<"Electrode">>, <<"Liepard">>,
                    <<"Tangela">>, <<"Eelektross">>, <<"Ditto">>,
                    <<"Seismitoad">>, <<"Zangoose">>, <<"Roselia">>,
                    <<"Serperior">>, <<"Metang">>, <<"Tauros">>,
                    <<"Cradily">>, <<"Primeape">>, <<"Scolipede">>,
                    <<"Jynx">>, <<"Basculin">>, <<"Gigalith">>,
                    <<"Camerupt">>, <<"Golbat">>>>)
          [] id = "gen4oubeta" ->
            Entry(<<"Pokemon", "Standard">>,
                  <<<<"Uber">>>>)
          [] id = "gen4uubeta" ->
            Entry(<<"Pokemon", "Standard">>,
                  <<<<"Uber">>, <<"OU">>, <<"BL">>>>)
          [] id = "gen4hackmons" ->
            Entry(<<"Pokemon", "HP Percentage Mod">>,
                  <<>>)
          [] id = "gen4customgame" ->
            Entry(<<>>,
                  <<>>)
          [] id = "gen3hackmons" ->
            Entry(<<"Pokemon", "HP Percentage Mod">>,
                  <<>>)
          [] id = "gen3customgame" ->
            Entry(<<>>,
                  <<>>)
          [] id = "gen2oubeta" ->
            Entry(<<"Pokemon", "Standard">>,
                  <<<<"Uber">>>>)
          [] id = "gen2customgame" ->
            Entry(<<"Pokemon">>,
                  <<>>)
          [] id = "gen1oubeta" ->
            Entry(<<"Pokemon", "Standard">>,
                  <<<<"Uber">>>>)
          [] id = "gen1customgame" ->
            Entry(<<"Pokemon">>,
                  <<>>)
          [] id = "standardnext" ->
            Entry(<<"Sleep Clause Mod", "Species Clause", "OHKO Clause",
                    "HP Percentage Mod">>,
                  <<<<"Unreleased">>, <<"Illegal">>, <<"Soul Dew">>>>)
          [] id = "standardubers" ->
            Entry(<<"Sleep Clause Mod", "Species Clause", "Moody Clause",
                    "OHKO Clause", "HP Percentage Mod">>,
                  <<<<"Unreleased">>, <<"Illegal">>>>)
          [] id = "standarddw" ->
            Entry(<<"Sleep Clause Mod", "Species Clause", "OHKO Clause",
                    "Evasion Moves Clause", "HP Percentage Mod">>,
                  <<<<"Illegal">>, <<"Moody">>>>)
          [] id = "legal" ->
            Entry(<<>>,
                  <<<<"Crobat+BraveBird+Hypnosis">>>>)
          [] id = "potd" ->
            Entry(<<>>,
                  <<>>)
          [] id = "teampreviewvgc" ->
            Entry(<<>>,
                  <<>>)
          [] id = "teampreview1v1" ->
            Entry(<<>>,
                  <<>>)
          [] id = "littlecup" ->
            Entry(<<>>,
                  <<>>)
          [] id = "freezeclause" ->
            Entry(<<>>,
                  <<>>)]

\* the registry as shipped, every entry with its ruleset and its banlist
ShippedRegistry ==
    [id \in DOMAIN BattleFormats \cup DOMAIN CuttingFormats
                \cup DOMAIN OtherFormats |->
        IF id \in DOMAIN BattleFormats THEN BattleFormats[id]
        ELSE IF id \in DOMAIN CuttingFormats THEN CuttingFormats[id]
        ELSE OtherFormats[id]]

(***************************************************************************)
(* Ruleset resolution: the registry entries a format references            *)
(* transitively, its ban set and its complex bans.                         *)
(***************************************************************************)
RulesetRefs(id) ==
    {toId(BattleFormats[id].ruleset[k]) : k \in 1..Len(BattleFormats[id].ruleset)}
        \cap DOMAIN BattleFormats

RECURSIVE ResolveFrom(_)
ResolveFrom(ids) ==
    LET more == ids \cup UNION {RulesetRefs(id) : id \in ids}
    IN  IF more = ids THEN ids ELSE ResolveFrom(more)

\* the rules and banlists in force under a format, the format itself included
resolve(fmt) == ResolveFrom({fmt})

BanEntries(fmt) ==
    UNION {Range(BattleFormats[id].banlist) : id \in resolve(fmt)}

IsComplexBan(entry) == Len(entry) = 3 /\ entry[2] = "++"

\* the normalized simple bans (banlistTable)
banSet(fmt) == {toId(e[1]) : e \in {b \in BanEntries(fmt) : Len(b) = 1}}

\* the normalized pairs of the "A ++ B" entries
complexBans(fmt) ==
    {<<toId(e[1]), toId(e[3])>> : e \in {b \in BanEntries(fmt) : IsComplexBan(b)}}

\* format.banlistTable['illegal']
LegalityEnforced(fmt) == "illegal" \in banSet(fmt)

(***************************************************************************)
(* Banlist check: every Set against the ban set and the complex bans of    *)
(* the format.                                                             *)
(***************************************************************************)
RECURSIVE SetToSeq(_)
SetToSeq(S) ==
    IF S = {} THEN <<>>
    ELSE LET x == CHOOSE y \in S : TRUE IN <<x>> \o SetToSeq(S \ {x})

\* the names a Set is tested under: species, ability, each move, item, tier
SetTokens(set) ==
    <<set.species>>
    \o (IF set.ability # "" THEN <<set.ability>> ELSE <<>>)
    \o (IF set.hasMoves THEN set.moves ELSE <<>>)
    \o (IF set.item # "" THEN <<set.item>> ELSE <<>>)
    \o <<getTemplate(set.species).tier>>

Matches(set, id) == id \in {toId(n) : n \in Range(SetTokens(set))}

RECURSIVE SimpleBanProblems(_, _, _)
SimpleBanProblems(tokens, i, fmt) ==
    IF i > Len(tokens) THEN <<>>
    ELSE (IF toId(tokens[i]) \in banSet(fmt)
          THEN <<Problem("banned", tokens[i], 0)>> ELSE <<>>)
         \o SimpleBanProblems(tokens, i + 1, fmt)

\* a complex ban fires on a Set that matches both of its halves
ComplexBanProblems(set, fmt) ==
    LET fired == {pair \in complexBans(fmt) :
                     Matches(set, pair[1]) /\ Matches(set, pair[2])}
    IN  [k \in 1..Cardinality(fired) |->
            Problem("bannedcombination",
                    SetToSeq(fired)[k][1] \o " ++ " \o SetToSeq(fired)[k][2], 0)]

RECURSIVE banlistCheck(_, _, _)
banlistCheck(t, i, fmt) ==
    IF i > Len(t) THEN <<>>
    ELSE SimpleBanProblems(SetTokens(t[i]), 1, fmt)
         \o ComplexBanProblems(t[i], fmt)
         \o banlistCheck(t, i + 1, fmt)

(***************************************************************************)
(* Pokemon (pokemon.validateSet).                                          *)
(***************************************************************************)
\* "X does not exist in gen N." / "X is not a real ...", never both
ExistenceProblems(entity, who, notReal) ==
    IF entity.gen > Gen THEN <<Problem("gen", who, Gen)>>
    ELSE IF entity.isNonstandard THEN <<Problem(notReal, who, 0)>>
    ELSE <<>>

RECURSIVE MoveProblems(_, _)
MoveProblems(moves, i) ==
    IF i > Len(moves) THEN <<>>
    ELSE ExistenceProblems(getMove(moves[i]), getMove(moves[i]).name, "notrealmove")
         \o MoveProblems(moves, i + 1)

\* set.name || set.species
Nickname(set) == IF set.name # "" THEN set.name ELSE set.species

MoveCountProblems_distinct(set) ==
    IF set.hasMoves /\ Cardinality({getMove(m).id : m \in Range(set.moves)}) > 4
    THEN <<Problem("fourmoves", Nickname(set), 0)>>
    ELSE <<>>

MoveCountProblems(set) ==
    IF set.hasMoves /\ Len(set.moves) > 4
    THEN <<Problem("fourmoves", Nickname(set), 0)>>
    ELSE <<>>

LevelProblems(set) ==
    IF set.level # 0 /\ set.level > 100
    THEN <<Problem("level100", Nickname(set), 0)>>
    ELSE <<>>

PreLegalityProblems_shortCircuit(set) ==
    LET species == ExistenceProblems(getTemplate(set.species), set.species,
                                     "notrealpokemon")
    IN  IF species # <<>> THEN species
        ELSE (IF set.ability # ""
              THEN ExistenceProblems(getAbility(set.ability),
                                     getAbility(set.ability).name, "notrealability")
              ELSE <<>>)
             \o (IF set.hasMoves THEN MoveProblems(set.moves, 1) ELSE <<>>)
             \o ExistenceProblems(getItem(set.item), getItem(set.item).name,
                                  "notrealitem")
             \o MoveCountProblems(set)
             \o LevelProblems(set)

\* the checks above the legality line, on the Set whose name was deleted
\* when it equals the species
PreLegalityProblems(set) ==
    ExistenceProblems(getTemplate(set.species), set.species, "notrealpokemon")
    \o (IF set.ability # ""
        THEN ExistenceProblems(getAbility(set.ability), getAbility(set.ability).name,
                               "notrealability")
        ELSE <<>>)
    \o (IF set.hasMoves THEN MoveProblems(set.moves, 1) ELSE <<>>)
    \o ExistenceProblems(getItem(set.item), getItem(set.item).name, "notrealitem")
    \o MoveCountProblems(set)
    \o LevelProblems(set)

RECURSIVE LimitOneOfEachMove_byName(_, _, _)
LimitOneOfEachMove_byName(moves, i, hasMove) ==
    IF i > Len(moves) THEN <<>>
    ELSE IF moves[i] \in hasMove
         THEN LimitOneOfEachMove_byName(moves, i + 1, hasMove)
         ELSE <<moves[i]>>
              \o LimitOneOfEachMove_byName(moves, i + 1, hasMove \cup {moves[i]})

\* "limit one of each move": the loop from move i on, hasMove holding the
\* move ids seen so far
RECURSIVE LimitOneOfEachMove(_, _, _)
LimitOneOfEachMove(moves, i, hasMove) ==
    IF i > Len(moves) THEN <<>>
    ELSE IF getMove(moves[i]).id \in hasMove
         THEN LimitOneOfEachMove(moves, i + 1, hasMove)
         ELSE <<moves[i]>>
              \o LimitOneOfEachMove(moves, i + 1, hasMove \cup {getMove(moves[i]).id})

\* var moves = []; if (set.moves) {...}; set.moves = moves
DedupMoves(set) ==
    [set EXCEPT !.hasMoves = TRUE,
                !.moves = IF set.hasMoves THEN LimitOneOfEachMove(set.moves, 1, {})
                          ELSE <<>>]

FormRewrites_toggling(template, item, set) ==
    IF template.num = 487
    THEN [set EXCEPT !.species = IF set.species = "Giratina"
                                 THEN "Giratina-Origin" ELSE "Giratina"]
    ELSE set

FormRewrites_byName(template, item, set) ==
    CASE set.species = "Castform" -> [set EXCEPT !.species = "Castform"]
      [] set.species = "Cherrim" -> [set EXCEPT !.species = "Cherrim"]
      [] set.species = "Arceus" ->
           IF set.ability = "Multitype" /\ item.onPlate # ""
           THEN [set EXCEPT !.species = "Arceus-" \o item.onPlate]
           ELSE [set EXCEPT !.species = "Arceus"]
      [] set.species = "Darmanitan" -> [set EXCEPT !.species = "Darmanitan"]
      [] set.species = "Giratina" ->
           IF item.id = "griseousorb"
           THEN [set EXCEPT !.species = "Giratina-Origin", !.ability = "Levitate"]
           ELSE [set EXCEPT !.species = "Giratina", !.ability = "Pressure"]
      [] set.species = "Meloetta" -> [set EXCEPT !.species = "Meloetta"]
      [] OTHER -> set

\* the form rewrites, keyed by the number of the template looked up on entry
FormRewrites(template, item, set) ==
    CASE template.num = 351 -> [set EXCEPT !.species = "Castform"]
      [] template.num = 421 -> [set EXCEPT !.species = "Cherrim"]
      [] template.num = 493 ->
           IF set.ability = "Multitype" /\ item.onPlate # ""
           THEN [set EXCEPT !.species = "Arceus-" \o item.onPlate]
           ELSE [set EXCEPT !.species = "Arceus"]
      [] template.num = 555 -> [set EXCEPT !.species = "Darmanitan"]
      [] template.num = 487 ->
           IF item.id = "griseousorb"
           THEN [set EXCEPT !.species = "Giratina-Origin", !.ability = "Levitate"]
           ELSE [set EXCEPT !.species = "Giratina", !.ability = "Pressure"]
      [] template.num = 647 ->
           IF set.species = "Keldeo-Resolution" /\ "Secret Sword" \notin Range(set.moves)
           THEN [set EXCEPT !.species = "Keldeo"]
           ELSE set
      [] template.num = 648 -> [set EXCEPT !.species = "Meloetta"]
      [] OTHER -> set

pokemon_alwaysEnforcing(set, fmt) ==
    LET item == getItem(set.item)
        template == getTemplate(set.species)
        named == IF set.species = set.name THEN [set EXCEPT !.name = ""] ELSE set
    IN  [problems |-> PreLegalityProblems(named),
         set |-> FormRewrites(template, item, DedupMoves(named))]

\* the problems returned and the Set as the call leaves it
pokemon_validateSet(set, fmt) ==
    LET item == getItem(set.item)
        template == getTemplate(set.species)
        named == IF set.species = set.name THEN [set EXCEPT !.name = ""] ELSE set
        found == PreLegalityProblems(named)
    IN  IF ~LegalityEnforced(fmt) THEN [problems |-> found, set |-> named]
        ELSE [problems |-> found,
              set |-> FormRewrites(template, item, DedupMoves(named))]

(***************************************************************************)
(* CAP Pokemon (cappokemon.validateSet).                                   *)
(***************************************************************************)
cappokemon_returning(set, fmt) ==
    [problems |-> pokemon_validateSet(set, fmt).problems,
     set |-> DedupMoves(pokemon_validateSet(set, fmt).set)]

\* the result of Pokemon's validateSet is dropped ("don't return") and the
\* handler returns nothing: no problems
cappokemon_validateSet(set, fmt) ==
    [problems |-> <<>>,
     set |-> DedupMoves(pokemon_validateSet(set, fmt).set)]

(***************************************************************************)
(* OHKO Clause (ohkoclause.validateSet).                                   *)
(***************************************************************************)
RECURSIVE ohkoclause_firstOnly(_, _)
ohkoclause_firstOnly(moves, i) ==
    IF i > Len(moves) THEN <<>>
    ELSE IF getMove(moves[i]).ohko
         THEN <<Problem("ohkoclause", getMove(moves[i]).name, 0)>>
         ELSE ohkoclause_firstOnly(moves, i + 1)

\* the loop over set.moves from move i on
RECURSIVE ohkoclause_loop(_, _)
ohkoclause_loop(moves, i) ==
    IF i > Len(moves) THEN <<>>
    ELSE (IF getMove(moves[i]).ohko
          THEN <<Problem("ohkoclause", getMove(moves[i]).name, 0)>>
          ELSE <<>>)
         \o ohkoclause_loop(moves, i + 1)

\* the Set is left as it is
ohkoclause_validateSet(set) ==
    [problems |-> IF set.hasMoves THEN ohkoclause_loop(set.moves, 1) ELSE <<>>,
     set |-> set]

(***************************************************************************)
(* Species Clause (speciesclause.validateTeam).                            *)
(***************************************************************************)
RECURSIVE speciesclause_byName(_, _, _)
speciesclause_byName(t, i, speciesTable) ==
    IF i > Len(t) THEN <<>>
    ELSE LET template == getTemplate(t[i].species)
         IN  IF template.name \in speciesTable
             THEN <<Problem("speciesclause", "", 0),
                    Problem("morethanone", template.name, 0)>>
             ELSE speciesclause_byName(t, i + 1, speciesTable \cup {template.name})

\* the loop from Set i on, speciesTable holding the numbers seen so far
RECURSIVE speciesclause_loop(_, _, _)
speciesclause_loop(t, i, speciesTable) ==
    IF i > Len(t) THEN <<>>
    ELSE LET template == getTemplate(t[i].species)
         IN  IF template.num \in speciesTable
             THEN <<Problem("speciesclause", "", 0),
                    Problem("morethanone", template.name, 0)>>
             ELSE speciesclause_loop(t, i + 1, speciesTable \cup {template.num})

speciesclause_validateTeam(t) ==
    [outcome |-> "returned", problems |-> speciesclause_loop(t, 1, {})]

(***************************************************************************)
(* Same Type Clause (sametypeclause.validateTeam).                         *)
(***************************************************************************)
Types == {"Electric", "Water", "Dragon", "Flying", "Ghost", "Normal", "Fire",
          "Ice", "Bug", "Grass", "Psychic", "Fighting"}

Bump(typeTable, type) == [typeTable EXCEPT ![type] = @ + 1]

typeTable_firstTypeOnly(t, i, typeTable) ==
    IF ~getTemplate(t[i].species).hasTypes THEN typeTable
    ELSE Bump(typeTable, getTemplate(t[i].species).types[1])

\* the body of the first loop for Set i: one count for the first type and
\* one for the second type when there is one
typeTable_step(t, i, typeTable) ==
    LET template == getTemplate(t[i].species)
    IN  IF ~template.hasTypes THEN typeTable
        ELSE LET first == Bump(typeTable, template.types[1])
             IN  IF Len(template.types) >= 2 THEN Bump(first, template.types[2])
                 ELSE first

RECURSIVE typeTable_loop(_, _, _)
typeTable_loop(t, i, typeTable) ==
    IF i > Len(t) THEN typeTable
    ELSE typeTable_loop(t, i + 1, typeTable_step(t, i, typeTable))

\* a type is a key of typeTable once it has been counted
sametypeclause_validateTeam(t) ==
    LET typeTable == typeTable_loop(t, 1, [type \in Types |-> 0])
    IN  [outcome |-> "returned",
         problems |-> IF \E type \in Types : /\ typeTable[type] > 0
                                             /\ typeTable[type] >= Len(t)
                      THEN <<>>
                      ELSE <<Problem("sametype", "", 0)>>]

(***************************************************************************)
(* Item Clause (itemclause.validateTeam).                                  *)
(***************************************************************************)
RECURSIVE itemclause_countingAbsent(_, _, _)
itemclause_countingAbsent(t, i, itemTable) ==
    IF i > Len(t) THEN <<>>
    ELSE LET item == toId(t[i].item)
         IN  IF item \in itemTable
             THEN <<Problem("itemclause", "", 0),
                    Problem("morethanone", getItem(item).name, 0)>>
             ELSE itemclause_countingAbsent(t, i + 1, itemTable \cup {item})

\* the loop from Set i on, itemTable holding the item ids seen so far
RECURSIVE itemclause_loop(_, _, _)
itemclause_loop(t, i, itemTable) ==
    IF i > Len(t) THEN <<>>
    ELSE LET item == toId(t[i].item)
         IN  IF item = "" THEN itemclause_loop(t, i + 1, itemTable)
             ELSE IF item \in itemTable
                  THEN <<Problem("itemclause", "", 0),
                         Problem("morethanone", getItem(item).name, 0)>>
                  ELSE itemclause_loop(t, i + 1, itemTable \cup {item})

itemclause_validateTeam(t) ==
    [outcome |-> "returned", problems |-> itemclause_loop(t, 1, {})]

(***************************************************************************)
(* Sash Clause (sashclause.validateTeam).                                  *)
(***************************************************************************)
RECURSIVE sashclause_byName(_, _, _)
sashclause_byName(t, i, hasFocusSash) ==
    IF i > Len(t) THEN <<>>
    ELSE LET counted == IF t[i].item = "Focus Sash"
                        THEN hasFocusSash + 1 ELSE hasFocusSash
         IN  IF counted > 1 THEN <<Problem("sashclause", "", 0)>>
             ELSE sashclause_byName(t, i + 1, counted)

\* the loop from Set i on, hasFocusSash counting the sashes seen so far
RECURSIVE sashclause_loop(_, _, _)
sashclause_loop(t, i, hasFocusSash) ==
    IF i > Len(t) THEN <<>>
    ELSE LET counted == IF toId(t[i].item) = "focussash"
                        THEN hasFocusSash + 1 ELSE hasFocusSash
         IN  IF counted > 1 THEN <<Problem("sashclause", "", 0)>>
             ELSE sashclause_loop(t, i + 1, counted)

sashclause_validateTeam(t) ==
    [outcome |-> "returned", problems |-> sashclause_loop(t, 1, 0)]

(***************************************************************************)
(* The validation request.                                                 *)
(***************************************************************************)
NoRuleset == [orderedRules |-> <<>>, banSet |-> {}, complexBans |-> {}]

\* no validation request: nothing submitted, no handler run
IdleRequest(f) ==
    /\ team = <<>>
    /\ format = f
    /\ rule = "none"
    /\ idx = 0
    /\ arg = <<>>
    /\ outcome = "none"
    /\ problems = <<>>

SideIds == {"p1", "p2"}

\* the Pokemon a side brought in slot n: no status, and so no status source
Mon(n) == [slot |-> n, status |-> "", source |-> ""]

Side(n) == [pokemon |-> [i \in 1..n |-> Mon(i)], pokemonLeft |-> n]

NoEvent ==
    [hook |-> "none", side |-> "", slot |-> 0, status |-> "", source |-> "",
     returned |-> "", n |-> 0, had |-> <<>>]

\* no battle going on
IdleBattle ==
    /\ sides = [s \in SideIds |-> Side(0)]
    /\ event = NoEvent

\* nobody typing commands
IdleUser ==
    /\ user = [name |-> <<>>, isAway |-> FALSE]
    /\ originalName = <<>>
    /\ reply = ""

Callers == 1..NumCallers

NoCall == [pc |-> "idle", fmt |-> "", value |-> NoRuleset, hit |-> FALSE]

\* nothing cached, nobody calling
IdleCache ==
    /\ cache = <<>>
    /\ calls = [c \in Callers |-> NoCall]

\* a request under format f of the shipped registry
InitFor(f) ==
    /\ IdleRequest(f)
    /\ IdleCache
    /\ IdleBattle
    /\ IdleUser
    /\ registry = BattleFormats
    /\ target = f
    /\ stack = <<>>
    /\ effective = NoRuleset
    /\ status = "idle"
    /\ cycle = <<>>

\* the client adds a Set to the team it is going to submit
AddSet(s, max) ==
    /\ rule = "none"
    /\ Len(team) < max
    /\ team' = Append(team, s)
    /\ UNCHANGED <<format, rule, idx, arg, outcome, problems>>
    /\ UNCHANGED <<rvars, cvars, bvars, uvars>>

\* the client adds a move to the Set it added last
AddMove(m, max) ==
    /\ rule = "none"
    /\ team # <<>>
    /\ team[Len(team)].hasMoves
    /\ Len(team[Len(team)].moves) < max
    /\ team' = [team EXCEPT ![Len(team)].moves = Append(@, m)]
    /\ UNCHANGED <<format, rule, idx, arg, outcome, problems>>
    /\ UNCHANGED <<rvars, cvars, bvars, uvars>>

\* a team-level handler ran on the whole team
TeamCall(name, r) ==
    /\ rule' = name
    /\ idx' = 0
    /\ arg' = team
    /\ outcome' = r.outcome
    /\ problems' = r.problems
    /\ UNCHANGED <<team, format>>
    /\ UNCHANGED <<rvars, cvars, bvars, uvars>>

\* a per-Set handler ran on Set i, which it may have changed in place
SetCall(name, i, r) ==
    /\ rule' = name
    /\ idx' = i
    /\ arg' = team
    /\ outcome' = "returned"
    /\ problems' = r.problems
    /\ team' = [team EXCEPT ![i] = r.set]
    /\ UNCHANGED format
    /\ UNCHANGED <<rvars, cvars, bvars, uvars>>

PokemonValidateSet(i) ==
    /\ "pokemon" \in resolve(format)
    /\ SetCall("Pokemon", i, pokemon_validateSet(team[i], format))

CapPokemonValidateSet(i) ==
    /\ "cappokemon" \in resolve(format)
    /\ SetCall("CAP Pokemon", i, cappokemon_validateSet(team[i], format))

OhkoClauseValidateSet(i) ==
    /\ "ohkoclause" \in resolve(format)
    /\ SetCall("OHKO Clause", i, ohkoclause_validateSet(team[i]))

(***************************************************************************)
(* Rule dispatch on one Set: the per-Set handlers and the banlist check    *)
(* run one after the other, in the given order, on the Set as the handler  *)
(* before left it; the problems are appended.                              *)
(***************************************************************************)
RuleValidateSet(name, set, fmt) ==
    CASE name = "Pokemon" -> pokemon_validateSet(set, fmt)
      [] name = "OHKO Clause" -> ohkoclause_validateSet(set)
      [] name = "Banlist" ->
           [problems |-> banlistCheck(<<set>>, 1, fmt), set |-> set]

RECURSIVE Dispatch_freshCopy(_, _, _, _)
Dispatch_freshCopy(order, k, set, fmt) ==
    IF k > Len(order) THEN [problems |-> <<>>, set |-> set]
    ELSE LET r == RuleValidateSet(order[k], set, fmt)
             rest == Dispatch_freshCopy(order, k + 1, set, fmt)
         IN  [problems |-> r.problems \o rest.problems, set |-> rest.set]

RECURSIVE Dispatch(_, _, _, _)
Dispatch(order, k, set, fmt) ==
    IF k > Len(order) THEN [problems |-> <<>>, set |-> set]
    ELSE LET r == RuleValidateSet(order[k], set, fmt)
             rest == Dispatch(order, k + 1, r.set, fmt)
         IN  [problems |-> r.problems \o rest.problems, set |-> rest.set]

DispatchedRules == {"Pokemon", "OHKO Clause", "Banlist"}

\* the orders the three can be dispatched in
Orders ==
    {o \in [1..3 -> DispatchedRules] : \A i, j \in 1..3 : o[i] = o[j] => i = j}

OrderName(o) == o[1] \o " > " \o o[2] \o " > " \o o[3]

ValidateSetIn(o, i) ==
    SetCall(OrderName(o), i, Dispatch(o, 1, team[i], format))

BanlistCheck ==
    TeamCall("Banlist",
             [outcome |-> "returned", problems |-> banlistCheck(team, 1, format)])

PointSystemValidateTeam == TeamCall("Point System", pointsystem_validateTeam(team))

(***************************************************************************)
(* Point Score teams.                                                      *)
(***************************************************************************)
PointSets ==
    LET base == {MkSet("Kyogre", "", "", "", 0),
                 MkSet("Politoed", "", "", "", 0),
                 MkSet("Politoed", "", "Drizzle", "Leftovers", 0)}
    IN  base \cup {WithMoves(s) : s \in base}

PointMoves == {"Recover", "Surf"}

InitPoints == InitFor("pointscore")

NextPoints ==
    \/ \E s \in PointSets : AddSet(s, MaxTeam)
    \/ \E m \in PointMoves : AddMove(m, MaxTeamMoves)
    \/ PointSystemValidateTeam

SpecPoints == InitPoints /\ [][NextPoints]_vars

SpeciesClauseValidateTeam ==
    TeamCall("Species Clause", speciesclause_validateTeam(team))

SameTypeClauseValidateTeam ==
    TeamCall("Same Type Clause", sametypeclause_validateTeam(team))

(***************************************************************************)
(* Teams for the team clauses.                                             *)
(***************************************************************************)
ClauseSets ==
    {MkSet(sp, "", "", "", 0) :
        sp \in {"Pikachu", "Raichu", "Kingdra", "Dragonite", "Giratina",
                "Giratina-Origin", "Missingno"}}

InitClause == InitFor("oumonotype")

NextClause ==
    \/ \E s \in ClauseSets : AddSet(s, MaxTeam)
    \/ SpeciesClauseValidateTeam
    \/ SameTypeClauseValidateTeam

SpecClause == InitClause /\ [][NextClause]_vars

(***************************************************************************)
(* One Set under the per-Set rules, with and without legality enforcement. *)
(***************************************************************************)
SingleSets ==
    LET base == {MkSet("Pikachu", "", "", "", 0),
                 MkSet("Pikachu", "Sparky", "Fairy Aura", "Assault Vest", 101),
                 MkSet("Syclant", "Syclant", "Static", "Leftovers", 100)}
    IN  base \cup {WithMoves(s) : s \in base}

SingleMoves ==
    {"Tackle", "tackle", "Scratch", "Fissure", "Sheer Cold", "Moonblast"}

InitSet ==
    \E f \in {"ou", "cap", "hackmons"} : InitFor(f)

NextSet ==
    \/ \E s \in SingleSets : AddSet(s, 1)
    \/ \E m \in SingleMoves : AddMove(m, MaxSetMoves)
    \/ \E i \in 1..Len(team) : PokemonValidateSet(i)
    \/ \E i \in 1..Len(team) : CapPokemonValidateSet(i)
    \/ \E i \in 1..Len(team) : OhkoClauseValidateSet(i)

SpecSet == InitSet /\ [][NextSet]_vars

(***************************************************************************)
(* One Set whose species, ability, item, level and moves vary              *)
(* independently, under the Pokemon rule.                                  *)
(***************************************************************************)
FieldSets ==
    LET base == {MkSet(sp, "", ab, it, lv) :
                    sp \in {"Pikachu", "Syclant", "Froakie", "Missingno"},
                    ab \in {"", "Fairy Aura", "Mountaineer"},
                    it \in {"", "Crucibellite", "Mystery Box"},
                    lv \in {0, 101}}
    IN  base \cup {WithMoves(s) : s \in base}

FieldMoves == {"Surf", "Moonblast", "Shadow Strike"}

InitFields == \E f \in {"ou", "hackmons"} : InitFor(f)

NextFields ==
    \/ \E s \in FieldSets : AddSet(s, 1)
    \/ \E m \in FieldMoves : AddMove(m, MaxSetMoves)
    \/ \E i \in 1..Len(team) : PokemonValidateSet(i)

SpecFields == InitFields /\ [][NextFields]_vars

(***************************************************************************)
(* One Set of a species with several forms, under the Pokemon rule.        *)
(***************************************************************************)
FormSets ==
    LET base == {MkSet(sp, "", ab, it, 0) :
                    sp \in {"Giratina", "Giratina-Origin", "giratinaorigin",
                            "Arceus", "Arceus-Fire", "Castform-Sunny",
                            "Cherrim-Sunshine", "Darmanitan-Zen",
                            "Meloetta-Pirouette", "Keldeo", "Keldeo-Resolute",
                            "Pikachu"},
                    ab \in {"", "Multitype", "multitype", "Levitate"},
                    it \in {"", "Griseous Orb", "griseousorb", "Flame Plate",
                            "Splash Plate"}}
                \cup {MkSet(sp, "", "", "", 101) :
                         sp \in {"Giratina-Origin", "Pikachu"}}
    IN  base \cup {WithMoves(s) : s \in base}

FormMoves == {"Secret Sword", "Moonblast"}

InitForms == \E f \in {"ou", "hackmons", "cap"} : InitFor(f)

NextForms ==
    \/ \E s \in FormSets : AddSet(s, 1)
    \/ \E m \in FormMoves : AddMove(m, MaxTeamMoves)
    \/ \E i \in 1..Len(team) : PokemonValidateSet(i)
    \/ \E i \in 1..Len(team) : CapPokemonValidateSet(i)

SpecForms == InitForms /\ [][NextForms]_vars

(***************************************************************************)
(* One Set under Pokemon, OHKO Clause and the banlist check in every       *)
(* order, with legality enforcement (OU) and without (Balanced Hackmons).  *)
(***************************************************************************)
OrderSets ==
    {WithMoves(MkSet(sp, n, "", "", 0)) :
        sp \in {"Pikachu", "Kyogre"}, n \in {"", "Pikachu"}}

OrderMoves == {"Fissure", "Sheer Cold", "Minimize", "Tackle"}

InitOrder == \E f \in {"ou", "balancedhackmons"} : InitFor(f)

NextOrder ==
    \/ \E s \in OrderSets : AddSet(s, 1)
    \/ \E m \in OrderMoves : AddMove(m, MaxTeamMoves)
    \/ \E o \in Orders : \E i \in 1..Len(team) : ValidateSetIn(o, i)

SpecOrder == InitOrder /\ [][NextOrder]_vars

(***************************************************************************)
(* OU teams under the banlist check.                                       *)
(***************************************************************************)
BanSets ==
    {WithMoves(MkSet("Politoed", "", "Drizzle", "", 0)),
     WithMoves(MkSet("Kingdra", "", "Swift Swim", "", 0)),
     WithMoves(MkSet("Politoed", "", "", "Soul Dew", 0))}

BanMoves == {"Swift Swim", "Surf"}

InitBan == InitFor("ou")

NextBan ==
    \/ \E s \in BanSets : AddSet(s, MaxTeam)
    \/ \E m \in BanMoves : AddMove(m, MaxTeamMoves)
    \/ BanlistCheck

SpecBan == InitBan /\ [][NextBan]_vars

(***************************************************************************)
(* Teams for the item clauses.                                             *)
(***************************************************************************)
ItemClauseValidateTeam ==
    /\ "itemclause" \in resolve(format)
    /\ TeamCall("Item Clause", itemclause_validateTeam(team))

SashClauseValidateTeam ==
    /\ "sashclause" \in resolve(format)
    /\ TeamCall("Sash Clause", sashclause_validateTeam(team))

ItemSets ==
    {MkSet("Pikachu", "", "", it, 0) :
        it \in {"", "Leftovers", "leftovers", "Focus Sash", "focus sash", "Soul Dew"}}

InitItems == \E f \in {"globalshowdown", "rebalancedoumonotype"} : InitFor(f)

NextItems ==
    \/ \E s \in ItemSets : AddSet(s, MaxTeam)
    \/ ItemClauseValidateTeam
    \/ SashClauseValidateTeam

SpecItems == InitItems /\ [][NextItems]_vars

(***************************************************************************)
(* Ruleset resolution, step by step: a depth-first walk over the ruleset   *)
(* references in listed order.  stack is the active path, each frame the   *)
(* id being resolved and the position of its next reference; effective is  *)
(* the ruleset built so far.                                               *)
(***************************************************************************)
Frame(id) == [id |-> id, k |-> 1]

Top == stack[Len(stack)]

\* the reference the top frame is at
NextRef == toId(registry[Top.id].ruleset[Top.k])

HasNextRef == stack # <<>> /\ Top.k <= Len(registry[Top.id].ruleset)

OnStack_never(id) == FALSE

OnStack(id) == \E i \in 1..Len(stack) : stack[i].id = id

Visited_never(id) == FALSE

Visited(id) == id \in Range(effective.orderedRules)

SimpleBansOf(entry) ==
    {toId(e[1]) : e \in {b \in Range(entry.banlist) : Len(b) = 1}}

ComplexBansOf(entry) ==
    {<<toId(e[1]), toId(e[3])>> : e \in {b \in Range(entry.banlist) : IsComplexBan(b)}}

Spliced_replacing(id) ==
    [orderedRules |-> Append(effective.orderedRules, id),
     banSet |-> SimpleBansOf(registry[id]),
     complexBans |-> ComplexBansOf(registry[id])]

\* the rule id joins orderedRules, its bans join the ban tables
Spliced(id) ==
    [orderedRules |-> Append(effective.orderedRules, id),
     banSet |-> effective.banSet \cup SimpleBansOf(registry[id]),
     complexBans |-> effective.complexBans \cup ComplexBansOf(registry[id])]

Advanced == [stack EXCEPT ![Len(stack)].k = @ + 1]

StartResolve ==
    /\ status = "idle"
    /\ status' = "resolving"
    /\ stack' = <<Frame(target)>>
    /\ effective' = Spliced(target)
    /\ UNCHANGED <<registry, target, cycle, vvars, cvars, bvars, uvars>>

\* a reference seen for the first time: resolve it
Enter ==
    /\ status = "resolving"
    /\ HasNextRef
    /\ NextRef \in DOMAIN registry
    /\ ~OnStack(NextRef)
    /\ ~Visited(NextRef)
    /\ stack' = Append(Advanced, Frame(NextRef))
    /\ effective' = Spliced(NextRef)
    /\ UNCHANGED <<registry, target, status, cycle, vvars, cvars, bvars, uvars>>

\* a reference resolved before: its rules and bans are in already
Skip ==
    /\ status = "resolving"
    /\ HasNextRef
    /\ ~OnStack(NextRef)
    /\ Visited(NextRef)
    /\ stack' = Advanced
    /\ UNCHANGED <<registry, target, effective, status, cycle, vvars, cvars, bvars, uvars>>

\* a reference to an id on the active path: RulesetError naming the cycle
CycleError ==
    /\ status = "resolving"
    /\ HasNextRef
    /\ OnStack(NextRef)
    /\ status' = "RulesetError"
    /\ cycle' = LET from == CHOOSE i \in 1..Len(stack) : stack[i].id = NextRef
                IN  [i \in 1..(Len(stack) - from + 1) |-> stack[from + i - 1].id]
                    \o <<NextRef>>
    /\ stack' = <<>>
    /\ effective' = NoRuleset
    /\ UNCHANGED <<registry, target, vvars, cvars, bvars, uvars>>

\* every reference of the top frame is done: back to the one that referenced it
Return ==
    /\ status = "resolving"
    /\ Len(stack) > 1
    /\ ~HasNextRef
    /\ stack' = SubSeq(stack, 1, Len(stack) - 1)
    /\ UNCHANGED <<registry, target, effective, status, cycle, vvars, cvars, bvars, uvars>>

Finish ==
    /\ status = "resolving"
    /\ Len(stack) = 1
    /\ ~HasNextRef
    /\ stack' = <<>>
    /\ status' = "resolved"
    /\ UNCHANGED <<registry, target, effective, cycle, vvars, cvars, bvars, uvars>>

(***************************************************************************)
(* Registries to resolve: the shipped one, whole and cut down to the       *)
(* entries the validation requests use, and every registry of three        *)
(* entries A, B, C whose rulesets list up to MaxRefs of them.              *)
(***************************************************************************)
Nodes == {"a", "b", "c"}

NodeNames == {"A", "B", "C"}

RefSeqs ==
    UNION {{r \in [1..n -> NodeNames] : \A i, j \in 1..n : r[i] = r[j] => i = j} :
              n \in 0..MaxRefs}

NodeBans(id) ==
    CASE id = "a" -> <<<<"Uber">>>>
      [] id = "b" -> <<<<"Soul Dew">>, <<"Drizzle", "++", "Swift Swim">>>>
      [] id = "c" -> <<<<"Moody">>>>

Registries ==
    {[id \in Nodes |-> Entry(r[id], NodeBans(id))] : r \in [Nodes -> RefSeqs]}

ShippedFormats ==
    {"ou", "uu", "ru", "rususpecttest", "cap", "pointscore", "oumonotype",
     "hackmons", "balancedhackmons", "globalshowdown", "rebalancedoumonotype"}

InitResolve ==
    /\ registry \in {BattleFormats, ShippedRegistry} \cup Registries
    /\ target \in (IF registry = BattleFormats THEN ShippedFormats
                   ELSE IF registry = ShippedRegistry THEN DOMAIN ShippedRegistry
                   ELSE Nodes)
    /\ stack = <<>>
    /\ effective = NoRuleset
    /\ status = "idle"
    /\ cycle = <<>>
    /\ IdleRequest(target)
    /\ IdleCache
    /\ IdleBattle
    /\ IdleUser

NextResolve ==
    \/ StartResolve
    \/ Enter
    \/ Skip
    \/ CycleError
    \/ Return
    \/ Finish

SpecResolve == InitResolve /\ [][NextResolve]_vars

\* resolution is one synchronous call: once started it runs to its end
FairResolve == SpecResolve /\ WF_vars(NextResolve)

(***************************************************************************)
(* Properties.                                                             *)
(***************************************************************************)
\* C1: for every team the Point System result holds exactly one
\* "You've used X/2000 Points" problem, with X the cost of the team, when the
\* cost exceeds 2000, and no such problem when the cost is at most 2000.
ClaimCost(t) ==
    LET SetCost(s) ==
            PointsOf(formatPoints, getTemplate(s.species).tier)
            + PointsOf(abilityPoints, toId(s.ability))
            + PointsOf(itemPoints, toId(s.item))
    IN  SumSeq([i \in 1..Len(t) |-> SetCost(t[i])])

C1_BudgetProblem ==
    rule = "Point System" =>
        /\ outcome = "returned"
        /\ IF ClaimCost(arg) > 2000
           THEN /\ CountKind(problems, "points") = 1
                /\ Problem("points", "", ClaimCost(arg)) \in Range(problems)
           ELSE CountKind(problems, "points") = 0

\* C2: the non-damaging-move problem is reported exactly once when the Uber
\* Sets of the team hold two or more base-power-0 moves together, and not at
\* all when they hold none or one.
UberNonDamaging(t) ==
    SumSeq([i \in 1..Len(t) |->
        IF getTemplate(t[i].species).tier = "Uber"
        THEN Cardinality({b \in 1..Len(t[i].moves) : getMove(t[i].moves[b]).basePower = 0})
        ELSE 0])

C2_NonDamagingOnce ==
    (rule = "Point System" /\ outcome = "returned") =>
        CountKind(problems, "nondamaging")
            = (IF UberNonDamaging(arg) >= 2 THEN 1 ELSE 0)

\* C3: validation never throws, whatever fields the Sets of the team lack;
\* it returns its problems as data.
C3_NeverThrows == outcome # "threw"

\* C9: Species Clause reports a violation if and only if two Sets of the team
\* resolve to the same species number; however many species are repeated,
\* the violation is reported once.
SpeciesRepeated(t) ==
    \E i, j \in 1..Len(t) :
        i < j /\ getTemplate(t[i].species).num = getTemplate(t[j].species).num

MembersWithType(t, type) ==
    {i \in 1..Len(t) : /\ getTemplate(t[i].species).hasTypes
                       /\ type \in Range(getTemplate(t[i].species).types)}

TeamTypes(t) == {type \in Types : MembersWithType(t, type) # {}}

IsGenericCheckProblem(p) == p.kind \in {"fourmoves", "level100", "gen"}

C4_CapReportsPokemonProblems ==
    rule = "CAP Pokemon" =>
        SelectSeq(problems, IsGenericCheckProblem)
            = SelectSeq(pokemon_validateSet(arg[idx], format).problems,
                        IsGenericCheckProblem)

\* C4 as amended: the CAP Pokemon rule invokes the base Pokemon validateSet
\* for what it does to the Set but drops its problem list: it returns no
\* problem, whatever the base rule finds, and leaves no move id twice.
C4_CapDropsPokemonProblems ==
    rule = "CAP Pokemon" =>
        /\ outcome = "returned"
        /\ problems = <<>>
        /\ team[idx].hasMoves
        /\ \A i, j \in 1..Len(team[idx].moves) :
              i # j => toId(team[idx].moves[i]) # toId(team[idx].moves[j])

C4_Witness ==
    /\ rule = "CAP Pokemon"
    /\ Len(arg[idx].moves) > 4
    /\ arg[idx].level > 100
    /\ CountKind(pokemon_validateSet(arg[idx], format).problems, "fourmoves") = 1
    /\ problems = <<>>

\* C5 as claimed: Pokemon validateSet reports "has more than four moves"
\* exactly when the Set has more than 4 distinct moves.
DistinctMoves(set) == {toId(m) : m \in Range(set.moves)}

C5_MoreThanFourDistinct ==
    rule = "Pokemon" =>
        CountKind(problems, "fourmoves")
            = (IF Cardinality(DistinctMoves(arg[idx])) > 4 THEN 1 ELSE 0)

\* C5 as amended: Pokemon validateSet reports "has more than four moves"
\* exactly when the move list of the Set has more than 4 entries, repeated
\* moves counted as often as they are listed.
C5_MoreThanFourEntries ==
    rule = "Pokemon" =>
        CountKind(problems, "fourmoves")
            = (IF arg[idx].hasMoves /\ Len(arg[idx].moves) > 4 THEN 1 ELSE 0)

C5_Witness ==
    /\ rule = "Pokemon"
    /\ Len(arg[idx].moves) = 5
    /\ Cardinality(DistinctMoves(arg[idx])) = 2
    /\ CountKind(problems, "fourmoves") = 1

\* C6: under legality enforcement Pokemon validateSet leaves as the move
\* list of the Set the first occurrence of every move id of the input list,
\* in the input order, and returns no problem for the duplicates it drops.
FirstOccurrences(moves) ==
    {i \in 1..Len(moves) : \A j \in 1..(i - 1) : toId(moves[j]) # toId(moves[i])}

KeepsFirstOccurrences(in, out) ==
    /\ Len(out) = Cardinality(FirstOccurrences(in))
    /\ \A i \in FirstOccurrences(in) :
          out[Cardinality({j \in FirstOccurrences(in) : j <= i})] = in[i]

C6_EnforcementDedup ==
    (rule = "Pokemon" /\ LegalityEnforced(format)) =>
        /\ KeepsFirstOccurrences(arg[idx].moves, team[idx].moves)
        /\ {toId(m) : m \in Range(team[idx].moves)} = DistinctMoves(arg[idx])
        /\ Len(problems) =
             Len(pokemon_validateSet(arg[idx], "hackmons").problems)

C6_Witness ==
    /\ rule = "Pokemon"
    /\ LegalityEnforced(format)
    /\ arg[idx].moves = <<"Tackle", "tackle", "Scratch", "Tackle">>
    /\ team[idx].moves = <<"Tackle", "Scratch">>

\* C8: the complex ban "Drizzle ++ Swift Swim" of OU produces one
\* banned-combination problem for every single Set that matches both halves,
\* and none for a Set that matches one half only, nor for two halves matched
\* by two different Sets.
MatchesHalf(set, id) ==
    \/ toId(set.species) = id
    \/ toId(set.ability) = id
    \/ toId(set.item) = id
    \/ \E k \in 1..Len(set.moves) : toId(set.moves[k]) = id

C8_ComplexBanOneSet ==
    rule = "Banlist" =>
        CountKind(problems, "bannedcombination")
            = Cardinality({i \in 1..Len(arg) :
                              /\ MatchesHalf(arg[i], "drizzle")
                              /\ MatchesHalf(arg[i], "swiftswim")})

C8_Witness ==
    /\ rule = "Banlist"
    /\ Len(arg) = 3
    /\ MatchesHalf(arg[1], "drizzle") /\ ~MatchesHalf(arg[1], "swiftswim")
    /\ MatchesHalf(arg[2], "swiftswim") /\ ~MatchesHalf(arg[2], "drizzle")
    /\ MatchesHalf(arg[3], "drizzle") /\ MatchesHalf(arg[3], "swiftswim")
    /\ CountKind(problems, "bannedcombination") = 1

\* C11: Item Clause reports a violation if and only if two Sets hold items
\* with the same normalized item id; Sets without an item are ignored, so
\* any number of them never causes a violation.
ItemRepeated(t) ==
    \E i, j \in 1..Len(t) :
        /\ i < j
        /\ t[i].item # ""
        /\ toId(t[i].item) = toId(t[j].item)

C11_ItemClause ==
    rule = "Item Clause" =>
        /\ outcome = "returned"
        /\ CountKind(problems, "itemclause") = (IF ItemRepeated(arg) THEN 1 ELSE 0)
        /\ (~ItemRepeated(arg)) => problems = <<>>

C11_Witness ==
    /\ rule = "Item Clause"
    /\ Len(arg) = 3
    /\ arg[1].item = "" /\ arg[2].item = "" /\ arg[3].item = "Leftovers"
    /\ problems = <<>>

\* C12: Sash Clause returns exactly one problem when two or more Sets hold
\* the item whose normalized id is 'focussash', and no problem when none or
\* one Set holds it, whatever else the team holds.
SashHolders(t) == {i \in 1..Len(t) : toId(t[i].item) = "focussash"}

C12_SashClause ==
    rule = "Sash Clause" =>
        /\ outcome = "returned"
        /\ problems = (IF Cardinality(SashHolders(arg)) >= 2
                       THEN <<Problem("sashclause", "", 0)>>
                       ELSE <<>>)

C12_Witness ==
    /\ rule = "Sash Clause"
    /\ Len(arg) = 3
    /\ arg[1].item = "Focus Sash" /\ arg[2].item = "Leftovers"
    /\ arg[3].item = "focus sash"
    /\ Len(problems) = 1

\* C13: OHKO Clause validateSet returns exactly one "is banned by OHKO
\* Clause" problem per move of the Set flagged ohko, in move order, and an
\* empty list for a Set without OHKO moves or without a moves list; it
\* leaves the Set as it is.
OhkoMoves(moves) == {i \in 1..Len(moves) : getMove(moves[i]).ohko}

C13_OhkoClause ==
    rule = "OHKO Clause" =>
        /\ outcome = "returned"
        /\ Len(problems) = Cardinality(OhkoMoves(arg[idx].moves))
        /\ \A i \in OhkoMoves(arg[idx].moves) :
              problems[Cardinality({j \in OhkoMoves(arg[idx].moves) : j <= i})]
                  = Problem("ohkoclause", getMove(arg[idx].moves[i]).name, 0)
        /\ team = arg

C13_Witness ==
    /\ rule = "OHKO Clause"
    /\ arg[idx].moves = <<"Sheer Cold", "Tackle", "Fissure", "Sheer Cold">>
    /\ Len(problems) = 3
    /\ problems[2].who = "Fissure"

\* C14: Pokemon validateSet checks species, ability, each move and item
\* independently: an entity introduced after the active generation gets one
\* "does not exist in gen N" problem, otherwise a non-standard one gets one
\* "is not a real ..." problem, never both; the move-count and level checks
\* run whatever the other fields gave.
TooNew(entity) == entity.gen > Gen

NotReal(entity) == ~TooNew(entity) /\ entity.isNonstandard

B2N(b) == IF b THEN 1 ELSE 0

C14_IndependentChecks ==
    rule = "Pokemon" =>
        LET set == arg[idx]
            template == getTemplate(set.species)
            ability == getAbility(set.ability)
            item == getItem(set.item)
            mv(i) == getMove(set.moves[i])
        IN  /\ CountKind(problems, "gen")
                 = B2N(TooNew(template))
                   + B2N(set.ability # "" /\ TooNew(ability))
                   + Cardinality({i \in 1..Len(set.moves) : TooNew(mv(i))})
                   + B2N(TooNew(item))
            /\ CountKind(problems, "notrealpokemon") = B2N(NotReal(template))
            /\ CountKind(problems, "notrealability")
                 = B2N(set.ability # "" /\ NotReal(ability))
            /\ CountKind(problems, "notrealmove")
                 = Cardinality({i \in 1..Len(set.moves) : NotReal(mv(i))})
            /\ CountKind(problems, "notrealitem") = B2N(NotReal(item))
            /\ CountKind(problems, "fourmoves") = B2N(Len(set.moves) > 4)
            /\ CountKind(problems, "level100") = B2N(set.level > 100)
            /\ \A k \in 1..Len(problems) :
                  /\ problems[k].kind \in
                        {"gen", "notrealpokemon", "notrealability", "notrealmove",
                         "notrealitem", "fourmoves", "level100"}
                  /\ problems[k].kind = "gen" => problems[k].n = Gen

C14_Witness ==
    /\ rule = "Pokemon"
    /\ arg[idx].species = "Froakie"
    /\ arg[idx].ability = "Mountaineer"
    /\ arg[idx].item = "Crucibellite"
    /\ arg[idx].level = 101
    /\ arg[idx].moves = <<"Moonblast", "Shadow Strike", "Surf", "Surf", "Moonblast">>
    /\ Len(problems) = 8
    /\ CountKind(problems, "notrealitem") = 0

\* C15: a lookup miss is reported as a legality problem: when the species,
\* ability, item or a move of the Set is not in the dex, Pokemon validateSet
\* returns (does not throw) a problem naming that entity.
Misses(set) ==
    (IF getTemplate(set.species).exists THEN {} ELSE {set.species})
    \cup (IF set.ability = "" \/ getAbility(set.ability).exists
          THEN {} ELSE {getAbility(set.ability).name})
    \cup (IF set.item = "" \/ getItem(set.item).exists
          THEN {} ELSE {getItem(set.item).name})
    \cup {getMove(set.moves[i]).name :
             i \in {j \in 1..Len(set.moves) : ~getMove(set.moves[j]).exists}}

C15_LookupMissReported ==
    rule = "Pokemon" =>
        /\ outcome = "returned"
        /\ \A who \in Misses(arg[idx]) :
              \E k \in 1..Len(problems) : problems[k].who = who

\* C16: under legality enforcement the form rewrites are keyed by species
\* number: number 487 ends as Giratina-Origin with Levitate exactly when the
\* item id is griseousorb, otherwise as Giratina with Pressure; number 493
\* ends as Arceus-<plate type> exactly when the ability is Multitype and the
\* item is a plate, otherwise as Arceus; 351, 421, 555 and 648 end as their
\* base form, whatever name the Set was submitted with.
BaseForm(num) ==
    CASE num = 351 -> "Castform"
      [] num = 421 -> "Cherrim"
      [] num = 555 -> "Darmanitan"
      [] num = 648 -> "Meloetta"

C16_FormRewrites ==
    (rule = "Pokemon" /\ LegalityEnforced(format)) =>
        LET in == arg[idx]
            out == team[idx]
            num == getTemplate(in.species).num
            plate == getItem(in.item).onPlate
        IN  /\ num = 487 =>
                  /\ (out.species = "Giratina-Origin" /\ out.ability = "Levitate")
                        <=> getItem(in.item).id = "griseousorb"
                  /\ getItem(in.item).id # "griseousorb"
                        => (out.species = "Giratina" /\ out.ability = "Pressure")
            /\ num = 493 =>
                  /\ (in.ability = "Multitype" /\ plate # "")
                        => out.species = "Arceus-" \o plate
                  /\ ~(in.ability = "Multitype" /\ plate # "")
                        => out.species = "Arceus"
            /\ num \in {351, 421, 555, 648} => out.species = BaseForm(num)

C16_Witness ==
    /\ rule = "Pokemon"
    /\ LegalityEnforced(format)
    /\ arg[idx].species = "Giratina"
    /\ arg[idx].item = "griseousorb"
    /\ team[idx].species = "Giratina-Origin"
    /\ team[idx].ability = "Levitate"

\* C17: the enforcement sub-pass runs only when the format's ban table
\* contains 'illegal' and raises no problem: the problems returned are the
\* same with and without enforcement, and without enforcement the Set's
\* moves, species and ability are left as they were.
C17_EnforcementFrame ==
    rule = "Pokemon" =>
        /\ problems = pokemon_validateSet(arg[idx], "ou").problems
        /\ problems = pokemon_validateSet(arg[idx], "hackmons").problems
        /\ "illegal" \notin banSet(format) =>
              /\ team[idx].hasMoves = arg[idx].hasMoves
              /\ team[idx].moves = arg[idx].moves
              /\ team[idx].species = arg[idx].species
              /\ team[idx].ability = arg[idx].ability

C17_Witness ==
    /\ rule = "Pokemon"
    /\ format = "hackmons"
    /\ arg[idx].species = "Giratina-Origin"
    /\ arg[idx].item = ""
    /\ arg[idx].moves = <<"Moonblast", "Moonblast">>
    /\ team[idx] = arg[idx]
    /\ Len(problems) = 2
    /\ pokemon_validateSet(arg[idx], "ou").set.species = "Giratina"
    /\ Len(pokemon_validateSet(arg[idx], "ou").set.moves) = 1

\* C18: the order in which the rules are dispatched affects only the order of
\* the reported problems: any two orders of the same rules give the same
\* multiset of problems.
CountOf(s, p) == Cardinality({i \in 1..Len(s) : s[i] = p})

SameMultiset(a, b) ==
    \A p \in Range(a) \cup Range(b) : CountOf(a, p) = CountOf(b, p)

Dispatched == rule \in {OrderName(o) : o \in Orders}

ThisOrder == CHOOSE o \in Orders : OrderName(o) = rule

C18_OrderOnlyReorders ==
    Dispatched =>
        \A o \in Orders :
            SameMultiset(problems, Dispatch(o, 1, arg[idx], format).problems)

\* C18 as the code has it: the order matters exactly through the Set that
\* Pokemon's enforcement pass rewrites.  Without enforcement every order
\* gives the same multiset; with it, two orders with the same rules ahead of
\* Pokemon give the same multiset, and OHKO Clause reports one problem per
\* OHKO move entry when it runs before Pokemon and one per distinct OHKO
\* move when it runs after.
Before(o, name) ==
    {o[i] : i \in {j \in 1..3 : \E k \in 1..3 : j < k /\ o[k] = name}}

C18_OrderUpToEnforcement ==
    Dispatched =>
        LET moves == arg[idx].moves
        IN  /\ ~LegalityEnforced(format) =>
                  \A o \in Orders :
                     SameMultiset(problems,
                                  Dispatch(o, 1, arg[idx], format).problems)
            /\ \A o \in Orders :
                  Before(o, "Pokemon") = Before(ThisOrder, "Pokemon") =>
                     SameMultiset(problems,
                                  Dispatch(o, 1, arg[idx], format).problems)
            /\ CountKind(problems, "ohkoclause")
                 = IF LegalityEnforced(format)
                      /\ "OHKO Clause" \notin Before(ThisOrder, "Pokemon")
                   THEN Cardinality({getMove(moves[i]).id : i \in OhkoMoves(moves)})
                   ELSE Cardinality(OhkoMoves(moves))

C18_Witness ==
    /\ Dispatched
    /\ format = "ou"
    /\ ThisOrder = <<"OHKO Clause", "Pokemon", "Banlist">>
    /\ arg[idx].moves = <<"Fissure", "Fissure">>
    /\ CountKind(problems, "ohkoclause") = 2
    /\ CountKind(Dispatch(<<"Pokemon", "OHKO Clause", "Banlist">>, 1, arg[idx],
                          format).problems, "ohkoclause") = 1

\* C19: ruleset resolution always terminates: it ends resolved or in a
\* RulesetError; a format whose references form a cycle ends in a
\* RulesetError naming the cycle (a path of references from an id back to
\* itself), never resolved and never with a partial ruleset.
RefsOf(reg, id) == {toId(reg[id].ruleset[k]) : k \in 1..Len(reg[id].ruleset)}

RECURSIVE ReachableFrom(_, _)
ReachableFrom(reg, ids) ==
    LET more == ids \cup UNION {RefsOf(reg, id) : id \in ids}
    IN  IF more = ids THEN ids ELSE ReachableFrom(reg, more)

\* the ids on a cycle of references that the format reaches
Cyclic(reg, id) ==
    {x \in ReachableFrom(reg, {id}) :
        RefsOf(reg, x) # {} /\ x \in ReachableFrom(reg, RefsOf(reg, x))}

IsCycle(reg, path) ==
    /\ Len(path) >= 2
    /\ path[1] = path[Len(path)]
    /\ \A i \in 1..(Len(path) - 1) : path[i + 1] \in RefsOf(reg, path[i])

C19_CycleSafety ==
    /\ status = "resolved" =>
          /\ Cyclic(registry, target) = {}
          /\ Range(effective.orderedRules) = ReachableFrom(registry, {target})
    /\ status = "RulesetError" =>
          /\ IsCycle(registry, cycle)
          /\ cycle[1] \in ReachableFrom(registry, {target})
          /\ effective = NoRuleset
    /\ (status = "resolving" /\ Cyclic(registry, target) # {}) =>
          ENABLED NextResolve

C19_Terminates ==
    /\ <>(status \in {"resolved", "RulesetError"})
    /\ [](Cyclic(registry, target) # {} => <>(status = "RulesetError"))
    /\ []C19_CycleSafety

C19_Witness ==
    /\ status = "RulesetError"
    /\ target = "a"
    /\ registry["a"].ruleset = <<"C", "B">>
    /\ registry["b"].ruleset = <<"B">>
    /\ registry["c"].ruleset = <<>>
    /\ cycle = <<"b", "b">>

\* C20: for every successfully resolved format, orderedRules holds no rule
\* identity twice and lists the rules in first-seen depth-first order over
\* the ruleset references, also when a rule is reached through several
\* references; banSet and complexBans are the union of the bans of the
\* format and of everything it references transitively.
RefSeq(reg, id) == [k \in 1..Len(reg[id].ruleset) |-> toId(reg[id].ruleset[k])]

\* seen, extended by the ids first seen walking the references ids in order
RECURSIVE FirstSeen(_, _, _)
FirstSeen(reg, ids, seen) ==
    IF ids = <<>> THEN seen
    ELSE IF Head(ids) \in Range(seen) THEN FirstSeen(reg, Tail(ids), seen)
    ELSE FirstSeen(reg, Tail(ids),
                   FirstSeen(reg, RefSeq(reg, Head(ids)), Append(seen, Head(ids))))

NoDuplicates(s) == \A i, j \in 1..Len(s) : s[i] = s[j] => i = j

C20_OrderedRules ==
    /\ NoDuplicates(effective.orderedRules)
    /\ status = "resolved" =>
          /\ effective.orderedRules = FirstSeen(registry, <<target>>, <<>>)
          /\ effective.banSet =
                UNION {SimpleBansOf(registry[id]) :
                          id \in ReachableFrom(registry, {target})}
          /\ effective.complexBans =
                UNION {ComplexBansOf(registry[id]) :
                          id \in ReachableFrom(registry, {target})}
          /\ registry = BattleFormats =>
                /\ Range(effective.orderedRules) = resolve(target)
                /\ effective.banSet = banSet(target)
                /\ effective.complexBans = complexBans(target)

C20_Witness ==
    /\ status = "resolved"
    /\ target = "a"
    /\ registry["a"].ruleset = <<"B", "C">>
    /\ registry["b"].ruleset = <<"C">>
    /\ registry["c"].ruleset = <<>>
    /\ effective.orderedRules = <<"a", "b", "c">>
    /\ effective.banSet = {"uber", "souldew", "moody"}
    /\ effective.complexBans = {<<"drizzle", "swiftswim">>}

(***************************************************************************)
(* The ruleset cache: a call looks the format up, resolves it on a miss    *)
(* and inserts what it resolved unless an entry appeared meanwhile.        *)
(***************************************************************************)
\* one resolution of format f, start to end
ResolveOnce(reg, f) ==
    [orderedRules |-> FirstSeen(reg, <<f>>, <<>>),
     banSet |-> UNION {SimpleBansOf(reg[id]) : id \in ReachableFrom(reg, {f})},
     complexBans |-> UNION {ComplexBansOf(reg[id]) : id \in ReachableFrom(reg, {f})}]

InsertMerging(c, f, v) ==
    IF f \in DOMAIN c
    THEN [c EXCEPT ![f].orderedRules = @ \o v.orderedRules]
    ELSE (f :> v) @@ c

InsertIfAbsent(c, f, v) == IF f \in DOMAIN c THEN c ELSE (f :> v) @@ c

CacheFormats == {"ou", "uu", "hackmons"}

CacheHit(c, f) ==
    /\ calls[c].pc = "idle"
    /\ f \in DOMAIN cache
    /\ calls' = [calls EXCEPT ![c] =
                    [pc |-> "done", fmt |-> f, value |-> cache[f], hit |-> TRUE]]
    /\ UNCHANGED <<cache, vvars, rvars, bvars, uvars>>

CacheMiss(c, f) ==
    /\ calls[c].pc = "idle"
    /\ f \notin DOMAIN cache
    /\ calls' = [calls EXCEPT ![c] =
                    [pc |-> "missed", fmt |-> f, value |-> NoRuleset, hit |-> FALSE]]
    /\ UNCHANGED <<cache, vvars, rvars, bvars, uvars>>

Compute(c) ==
    /\ calls[c].pc = "missed"
    /\ calls' = [calls EXCEPT ![c].pc = "computed",
                              ![c].value = ResolveOnce(registry, calls[c].fmt)]
    /\ UNCHANGED <<cache, vvars, rvars, bvars, uvars>>

Insert(c) ==
    /\ calls[c].pc = "computed"
    /\ cache' = InsertIfAbsent(cache, calls[c].fmt, calls[c].value)
    /\ calls' = [calls EXCEPT ![c].pc = "done",
                              ![c].value = cache'[calls[c].fmt]]
    /\ UNCHANGED <<vvars, rvars, bvars, uvars>>

\* the call is over; the caller may call again
CallReturn(c) ==
    /\ calls[c].pc = "done"
    /\ calls' = [calls EXCEPT ![c] = NoCall]
    /\ UNCHANGED <<cache, vvars, rvars, bvars, uvars>>

InitCache == InitFor("ou")

NextCache ==
    \/ \E c \in Callers : \E f \in CacheFormats : CacheHit(c, f)
    \/ \E c \in Callers : \E f \in CacheFormats : CacheMiss(c, f)
    \/ \E c \in Callers : Compute(c)
    \/ \E c \in Callers : Insert(c)
    \/ \E c \in Callers : CallReturn(c)

SpecCache == InitCache /\ [][NextCache]_vars

\* C21: the cache tolerates concurrent first resolution: whatever the
\* interleaving of the calls, every call ends with the EffectiveRuleset a
\* single resolution of its format yields, and every cache entry is that
\* value, so a later call hitting the cache gets it too.
C21_CacheTolerant ==
    /\ \A f \in DOMAIN cache : cache[f] = ResolveOnce(registry, f)
    /\ \A c \in Callers :
          calls[c].pc = "done" =>
             calls[c].value = ResolveOnce(registry, calls[c].fmt)

C21_Witness ==
    /\ calls[1].pc = "done" /\ ~calls[1].hit
    /\ calls[2].pc = "done" /\ ~calls[2].hit
    /\ calls[1].fmt = "uu" /\ calls[2].fmt = "uu"
    /\ calls[1].value = calls[2].value
    /\ cache["uu"] = calls[1].value
    /\ Len(cache["uu"].orderedRules) > 3

(***************************************************************************)
(* Point Score teams under the banlist check.                              *)
(***************************************************************************)
PointBanSets ==
    {WithMoves(MkSet("Politoed", "", "Drizzle", "", 0)),
     MkSet("Pikachu", "", "Static", "Soul Dew", 0),
     MkSet("Pikachu", "", "Shadow Tag", "", 0),
     MkSet("Arceus", "", "Multitype", "", 0),
     MkSet("Pikachu", "", "Static", "Leftovers", 0)}

InitPointBans == InitFor("pointscore")

NextPointBans ==
    \/ \E s \in PointBanSets : AddSet(s, MaxTeam)
    \/ \E m \in BanMoves : AddMove(m, MaxTeamMoves)
    \/ BanlistCheck

SpecPointBans == InitPointBans /\ [][NextPointBans]_vars

\* C22: Point Score bans what its definition lists as banned: a Set holding
\* Soul Dew, a Set with ability Shadow Tag, a Set of species Arceus and a
\* Set matching both halves of "Drizzle ++ Swift Swim" each get an
\* "is banned" problem under Point Score.
ListedHits(set) ==
    {k \in 1..Len(pointscore_banlists) :
        IF IsComplexBan(pointscore_banlists[k])
        THEN /\ Matches(set, toId(pointscore_banlists[k][1]))
             /\ Matches(set, toId(pointscore_banlists[k][3]))
        ELSE Matches(set, toId(pointscore_banlists[k][1]))}

C22_PointScoreBans ==
    (rule = "Banlist" /\ format = "pointscore") =>
        CountKind(problems, "banned") + CountKind(problems, "bannedcombination")
            >= Cardinality({i \in 1..Len(arg) : ListedHits(arg[i]) # {}})

\* C23: under legality enforcement a Set of species number 647 submitted as
\* Keldeo-Resolute ends as Keldeo when it does not have the move Secret
\* Sword, and keeps its Resolute form when it has it.
HasMove(set, id) == \E i \in 1..Len(set.moves) : getMove(set.moves[i]).id = id

C23_KeldeoResolute ==
    (/\ rule = "Pokemon"
     /\ LegalityEnforced(format)
     /\ arg[idx].species = "Keldeo-Resolute"
     /\ getTemplate(arg[idx].species).num = 647) =>
        team[idx].species = IF HasMove(arg[idx], "secretsword")
                            THEN "Keldeo-Resolute" ELSE "Keldeo"

(***************************************************************************)
(* Sleep Clause Mod (sleepclausemod.onSetStatus) in a battle: the battle   *)
(* asks the hook before it changes the status of a Pokemon, and changes it *)
(* unless the hook returned false.  A source is the side of the Pokemon    *)
(* that causes the status, "" when there is none.                          *)
(***************************************************************************)
\* nothing resolved, cached or typed: the battle is all that moves
IdleButBattle(f) ==
    /\ IdleRequest(f)
    /\ registry = BattleFormats
    /\ target = f
    /\ stack = <<>>
    /\ effective = NoRuleset
    /\ status = "idle"
    /\ cycle = <<>>
    /\ IdleCache
    /\ IdleUser

\* the Pokemon of a side asleep without a source on their own side
PutToSleepByFoe(side) ==
    {i \in 1..Len(sides[side].pokemon) :
        /\ sides[side].pokemon[i].status = "slp"
        /\ (sides[side].pokemon[i].source = ""
            \/ sides[side].pokemon[i].source # side)}

sleepclausemod_targetOnly(st, side, slot, source) ==
    IF source # "" /\ source = side THEN "undefined"
    ELSE IF st = "slp" /\ slot \in PutToSleepByFoe(side) THEN "false"
    ELSE "undefined"

sleepclausemod_onSetStatus(st, side, slot, source) ==
    IF source # "" /\ source = side THEN "undefined"
    ELSE IF st = "slp" /\ PutToSleepByFoe(side) # {} THEN "false"
    ELSE "undefined"

\* st = "" is a wake-up
SetStatus(st, side, slot, source) ==
    LET r == sleepclausemod_onSetStatus(st, side, slot, source)
    IN  /\ "sleepclausemod" \in resolve(format)
        /\ event' = [hook |-> "onSetStatus", side |-> side, slot |-> slot,
                     status |-> st, source |-> source, returned |-> r,
                     n |-> Cardinality(PutToSleepByFoe(side)), had |-> <<>>]
        /\ sides' = IF r = "false" THEN sides
                    ELSE [sides EXCEPT ![side].pokemon[slot].status = st,
                                       ![side].pokemon[slot].source =
                                           IF st = "" THEN "" ELSE source]
        /\ UNCHANGED <<vvars, rvars, cvars, uvars>>

InitSleep ==
    /\ IdleButBattle("ou")
    /\ sides = [s \in SideIds |-> Side(SideSize)]
    /\ event = NoEvent

NextSleep ==
    \E st \in {"slp", ""} : \E side \in SideIds : \E slot \in 1..SideSize :
        \E source \in SideIds \cup {""} : SetStatus(st, side, slot, source)

SpecSleep == InitSleep /\ [][NextSleep]_vars

\* C24: Sleep Clause Mod limits each side to one foe put to sleep: a side
\* never has two Pokemon asleep from a source not on their own side; putting
\* a second one to sleep from the foe's side is refused, and sleep whose
\* source is on the target's own side is never refused.
C24_SleepClause ==
    /\ \A side \in SideIds : Cardinality(PutToSleepByFoe(side)) <= 1
    /\ event.hook = "onSetStatus" =>
          /\ event.source = event.side => event.returned = "undefined"
          /\ (event.status = "slp" /\ event.source # event.side /\ event.n >= 1)
                => event.returned = "false"
          /\ event.returned = "false" =>
                (event.status = "slp" /\ event.source # event.side /\ event.n >= 1)

C24_Witness ==
    /\ event.hook = "onSetStatus"
    /\ event.returned = "false"
    /\ event.side = "p1" /\ event.slot = 2 /\ event.source = "p2"
    /\ sides["p1"].pokemon[1].status = "slp"
    /\ sides["p1"].pokemon[1].source = "p2"
    /\ sides["p1"].pokemon[2].status = ""
    /\ sides["p2"].pokemon[1].status = "slp"
    /\ sides["p2"].pokemon[1].source = "p2"

(***************************************************************************)
(* The start of a battle under a format that cuts the teams down: the team *)
(* preview rule of the format asks each side for its picks, then onBegin   *)
(* keeps the first Pokemon of each side.                                   *)
(***************************************************************************)
\* slice(0, n) of this.pN.pokemon, and pokemonLeft set to what remains
CutDownTo_keepingCount(side, n) ==
    [pokemon |-> SubSeq(side.pokemon, 1, IF Len(side.pokemon) < n
                                          THEN Len(side.pokemon) ELSE n),
     pokemonLeft |-> side.pokemonLeft]

CutDownTo(side, n) ==
    LET kept == SubSeq(side.pokemon, 1, IF Len(side.pokemon) < n
                                         THEN Len(side.pokemon) ELSE n)
    IN  [pokemon |-> kept, pokemonLeft |-> Len(kept)]

\* the number onBegin passes to slice
onBeginCut(id) ==
    CASE id \in {"gbusingles", "globalshowdown"} -> 3
      [] id = "doublesvgc2013" -> 4
      [] id \in {"challengecup1vs1", "1v1"} -> 1

\* the number onTeamPreview passes to makeRequest; 0 for plain Team Preview,
\* which passes none
onTeamPreviewCount(name) ==
    CASE name = "Team Preview VGC" -> 4
      [] name = "Team Preview 1v1" -> 1
      [] name = "Team Preview GBU" -> 3
      [] name = "Team Preview" -> 0

TeamPreviewRules ==
    {"Team Preview VGC", "Team Preview 1v1", "Team Preview GBU", "Team Preview"}

\* the team preview rule of the format asks for its number of Pokemon
TeamPreviewRequest ==
    /\ event.hook = "none"
    /\ \E rl \in Range(CuttingFormats[format].ruleset) \cap TeamPreviewRules :
          event' = [NoEvent EXCEPT !.hook = "onTeamPreview",
                                   !.n = onTeamPreviewCount(rl)]
    /\ UNCHANGED <<sides, vvars, rvars, cvars, uvars>>

\* the format's onBegin; the event keeps what the team preview asked for and
\* how many Pokemon each side had
Begin ==
    /\ event.hook # "onBegin"
    /\ event' = [NoEvent EXCEPT !.hook = "onBegin", !.n = event.n,
                                !.had = [s \in SideIds |-> Len(sides[s].pokemon)]]
    /\ sides' = [s \in SideIds |-> CutDownTo(sides[s], onBeginCut(format))]
    /\ UNCHANGED <<vvars, rvars, cvars, uvars>>

InitBegin ==
    /\ \E f \in DOMAIN CuttingFormats : IdleButBattle(f)
    /\ \E n1, n2 \in 1..MaxSide : sides = [s \in SideIds |->
                                              Side(IF s = "p1" THEN n1 ELSE n2)]
    /\ event = NoEvent

NextBegin ==
    \/ TeamPreviewRequest
    \/ Begin

SpecBegin == InitBegin /\ [][NextBegin]_vars

\* C26: after onBegin of a team-cutting format (GBU Singles and Global
\* Showdown 3, Doubles VGC 2013 4, Challenge Cup 1-vs-1 and 1v1 1) each side
\* keeps exactly its first min(N, team size) Pokemon in their order,
\* pokemonLeft is the number of Pokemon it keeps, and N is the number the
\* format's team preview rule asks for, where it has one.
ClaimedCut(id) ==
    CASE id = "gbusingles" -> 3
      [] id = "globalshowdown" -> 3
      [] id = "doublesvgc2013" -> 4
      [] id = "challengecup1vs1" -> 1
      [] id = "1v1" -> 1

Min(a, b) == IF a < b THEN a ELSE b

C26_TeamCut ==
    /\ event.hook = "onBegin" =>
          \A s \in SideIds :
             /\ Len(sides[s].pokemon) = Min(ClaimedCut(format), event.had[s])
             /\ \A i \in 1..Len(sides[s].pokemon) : sides[s].pokemon[i].slot = i
             /\ sides[s].pokemonLeft = Len(sides[s].pokemon)
    /\ event.hook = "onTeamPreview" => event.n = ClaimedCut(format)
    /\ (event.hook = "onBegin" /\ event.n # 0) => event.n = ClaimedCut(format)

C26_Witness ==
    /\ event.hook = "onBegin"
    /\ format = "doublesvgc2013"
    /\ event.n = 4
    /\ event.had["p1"] = 6 /\ event.had["p2"] = 3
    /\ Len(sides["p1"].pokemon) = 4 /\ sides["p1"].pokemonLeft = 4
    /\ Len(sides["p2"].pokemon) = 3 /\ sides["p2"].pokemonLeft = 3

(***************************************************************************)
(* RU teams under the banlist check.                                       *)
(***************************************************************************)
RuSets == {WithMoves(MkSet("Pikachu", "", "Static", "", 0))}

RuMoves == {"Shell Smash", "Baton Pass", "Surf"}

InitRu == \E f \in {"ru", "rususpecttest"} : InitFor(f)

NextRu ==
    \/ \E s \in RuSets : AddSet(s, MaxTeam)
    \/ \E m \in RuMoves : AddMove(m, MaxTeamMoves)
    \/ BanlistCheck

SpecRu == InitRu /\ [][NextRu]_vars

\* C27: the RU and RU (suspect test) banlist entry 'Shell Smash + Baton Pass'
\* is a combination ban: a Set with both moves Shell Smash and Baton Pass is
\* rejected, a Set with only one of the two is not rejected because of it.
HasBoth(set) == HasMove(set, "shellsmash") /\ HasMove(set, "batonpass")

C27_ShellSmashBatonPass ==
    rule = "Banlist" =>
        /\ (\E i \in 1..Len(arg) : HasBoth(arg[i])) => problems # <<>>
        /\ (\A i \in 1..Len(arg) : ~HasBoth(arg[i])) => problems = <<>>

\* C28: re-validation is stable: validating again the Set as the first
\* validation left it returns the same ordered problem list as the first
\* validation and changes the Set no further.
Validated == rule \in {"Pokemon", "CAP Pokemon"}

\* the same handler, run again on the Set as it is now
Revalidated ==
    IF rule = "Pokemon" THEN pokemon_validateSet(team[idx], format)
    ELSE cappokemon_validateSet(team[idx], format)

RECURSIVE IsSubsequence(_, _)
IsSubsequence(a, b) ==
    IF a = <<>> THEN TRUE
    ELSE IF b = <<>> THEN FALSE
    ELSE IF Head(a) = Head(b) THEN IsSubsequence(Tail(a), Tail(b))
    ELSE IsSubsequence(a, Tail(b))

Renamed(ps) ==
    [i \in 1..Len(ps) |->
        [ps[i] EXCEPT !.who = IF @ = arg[idx].species
                              THEN team[idx].species ELSE @]]

Registered(reg) ==
    \A id \in DOMAIN reg : \A k \in 1..Len(reg[id].ruleset) :
        toId(reg[id].ruleset[k]) \in DOMAIN reg

Acyclic(reg) == \A id \in DOMAIN reg : Cyclic(reg, id) = {}

C29_ShippedResolves ==
    registry = ShippedRegistry =>
        /\ Registered(registry)
        /\ Acyclic(registry)
        /\ status # "RulesetError"
        /\ status = "resolved" =>
              \A ref \in RefsOf(registry, target) :
                  /\ ResolveOnce(registry, ref).banSet \subseteq effective.banSet
                  /\ ResolveOnce(registry, ref).complexBans
                        \subseteq effective.complexBans

C29_Witness ==
    /\ registry = ShippedRegistry
    /\ target = "pu"
    /\ status = "resolved"
    /\ {"nu", "ru", "uu", "ou", "standard"} \subseteq Range(effective.orderedRules)
    /\ {"golbat", "bl3", "bl2", "bl", "uber", "illegal", "moody"}
          \subseteq effective.banSet
    /\ <<"drizzle", "swiftswim">> \in effective.complexBans

(***************************************************************************)
(* The /away and /back commands (commands.js).  A name is the sequence of  *)
(* its characters; originalName keeps what /away read as the name before   *)
(* it renamed the user, and reply the text the command sent to the user.   *)
(***************************************************************************)
AwaySuffix == <<" ", "-", " ", "A", "w", "a", "y">>

\* name.substr(0, n): a length below zero counts as zero
Substr0(name, n) == IF n <= 0 THEN <<>> ELSE SubSeq(name, 1, n)

UserNames ==
    {<<"B", "o", "b">>,
     <<"A", "l">>,
     <<"A", "l", "e", "x", "a", "n", "d", "e", "r">>,
     <<"Z", "o", "e", " ", "-", " ", "A", "w", "a", "y">>}

\* user.forceRename and the user's own renames: the user bears the new name
Rename(newName) ==
    /\ newName # user.name
    /\ user' = [user EXCEPT !.name = newName]
    /\ reply' = ""
    /\ UNCHANGED <<originalName, vvars, rvars, cvars, bvars>>

Away(canLock) ==
    /\ IF ~user.isAway
       THEN /\ originalName' = user.name
            /\ user' = [name |-> user.name \o AwaySuffix, isAway |-> TRUE]
            /\ reply' = IF canLock THEN ""
                        ELSE "You are now set as away (Ignore the access denied)"
       ELSE /\ reply' = "You are already set as away, type /back if you are now back"
            /\ UNCHANGED <<user, originalName>>
    /\ UNCHANGED <<vvars, rvars, cvars, bvars>>

Back(canLock) ==
    /\ IF user.isAway
       THEN /\ user' = [name |-> Substr0(user.name, Len(user.name) - 7),
                        isAway |-> FALSE]
            /\ reply' = IF canLock THEN ""
                        ELSE "You are no longer set as away (Ignore the access denied)"
       ELSE /\ reply' = "You are not set as away"
            /\ UNCHANGED user
    /\ UNCHANGED <<originalName, vvars, rvars, cvars, bvars>>

InitUser ==
    /\ IdleRequest("ou")
    /\ registry = BattleFormats
    /\ target = "ou"
    /\ stack = <<>>
    /\ effective = NoRuleset
    /\ status = "idle"
    /\ cycle = <<>>
    /\ IdleCache
    /\ IdleBattle
    /\ user \in [name : UserNames, isAway : {FALSE}]
    /\ originalName = <<>>
    /\ reply = ""

NextUser ==
    \/ \E canLock \in BOOLEAN : Away(canLock)
    \/ \E canLock \in BOOLEAN : Back(canLock)
    \/ \E n \in UserNames : Rename(n)

SpecUser == InitUser /\ [][NextUser]_vars

\* C30: /away and /back are a two-state toggle that round-trips the name:
\* isAway is true exactly when the name is the name held before /away
\* followed by ' - Away'; /away while away and /back while not away change
\* neither the name nor isAway; and /back restores the name held before
\* /away, also when the user was renamed in between.
AwayMarked == user.isAway <=> user.name = originalName \o AwaySuffix

BackRestores ==
    /\ (user.isAway /\ ~user'.isAway) => user'.name = originalName
    /\ (user.isAway /\ user'.isAway /\ user'.name = user.name) => user' = user
    /\ (~user.isAway /\ ~user'.isAway /\ user'.name = user.name) => user' = user

C30_AwayRoundTrip == [](originalName # <<>> => AwayMarked) /\ [][BackRestores]_vars

====
